---- MODULE Spec2Model ----
(***************************************************************************)
(* The database session-lifecycle managers of src/database:                *)
(* SyncDatabaseManager (sync_database.py) and AsyncDatabaseManager         *)
(* (async_database.py).  One manager is modelled; the variable `variant`   *)
(* says which of the two classes it is.  The two classes run the same      *)
(* statements (the async one awaits dispose, rollback and close), so the   *)
(* operations share their bodies.                                          *)
(*                                                                         *)
(* The engine, the session factory, the connections and the sessions are   *)
(* library objects.  A call on one of them is recorded as an event and has *)
(* an outcome drawn from Outcomes: it returns, raises a SQLAlchemyError or *)
(* raises another exception.  The caller's block inside a scope is         *)
(* modelled the same way.                                                  *)
(*                                                                         *)
(* Spec runs the manager call by call: close is one step, a scope is two   *)
(* (up to its yield, and from the end of the caller's block to the end of  *)
(* the scope), and the steps of different scopes and close calls follow    *)
(* one another in any order, so a close may come while scopes are open.    *)
(*                                                                         *)
(* SpecThreads runs the sync manager statement by statement under several  *)
(* threads, split at every read and write of the two handles.  SpecTasks   *)
(* runs the async manager under several tasks of one event loop: a task    *)
(* runs without interruption from one await that suspends to the next.     *)
(* SpecServiceError constructs ServiceError instances and reads their msg  *)
(* attribute and their text.                                               *)
(*                                                                         *)
(* The utilities around the managers have a specification each, over an    *)
(* Open sync manager: SpecUrl (create_url, between the manager's calls),   *)
(* SpecNameTable (the table name MixInNameTable gives a class), SpecLogger *)
(* (the setup methods of logger/logger.py), SpecCache (the decorator       *)
(* cache_utils of redis_cache.py), SpecMetrics and SpecLogging (dispatch   *)
(* of the two middlewares of fastapi/middleware, under several requests)   *)
(* and SpecHandler (the handlers of create_exception_handler).             *)
(*                                                                         *)
(* The logger is the loguru logger the managers are written for: info,     *)
(* error, opt and bind return without raising.                             *)
(***************************************************************************)
EXTENDS Integers, Sequences, FiniteSets, TLC

\* Bounds of the model.
MaxCalls == 4      \* close / connect / session calls made on the manager
MaxScopes == 2     \* connect and session scopes open at the same time
MaxThreads == 2    \* threads that call the one sync manager at the same time
MaxErrors == 3     \* ServiceError instances constructed one after another
MaxClasses == 2    \* classes declared with the MixInNameTable mixin
MaxSetups == 4     \* setup calls made on the two logging instances
MaxInFlight == 2   \* requests inside one middleware at the same time
MaxRequests == 3   \* requests a middleware is given one after another

VARIABLES
    variant,       \* "sync" (SyncDatabaseManager) or "async" (AsyncDatabaseManager)
    engine,        \* self.engine: None or the engine handle
    sessionmaker,  \* self._sessionmaker: None or the session factory
    built,         \* the two handles as __init__ set them (history)
    closed,        \* a close that found a non-null engine has finished (history)
    scopes,        \* the scopes whose caller's block is running
    last,          \* what the last finished call did: events, exception, ...
    nCalls,        \* calls made on the manager so far
    nDispose,      \* engine.dispose calls so far
    nBegin,        \* engine.begin calls so far
    nFactory,      \* session factory calls so far
    sessions,      \* per session made: the rollback and close calls it got from
                   \* the exit of a scope other than its own (history)
    threads,       \* per thread: the call it is in and the statement it is at
    errors,        \* the ServiceError instances constructed, with their arguments
    db_params,     \* self.db_params: the connection parameters of the manager
    urls,          \* what the create_url calls returned so far
    classes,       \* the classes that mix in MixInNameTable, with their table names
    configured,    \* self._configured of the LoguruLogging instance
    sinks,         \* the sinks registered on the process-wide loguru logger
    setupLast,     \* what the last setup call was given and did
    nSetups,       \* setup calls made so far
    builtinConfigured, \* self._configured of the BuiltinLogging instance
    builtinLast,   \* what the last setup call on the BuiltinLogging instance did
    cache,         \* the redis hashes: per user id, the phrases that have an answer
    cacheLast,     \* what the last call of a function wrapped by cache_utils did
    metricsArg,    \* the skip_paths argument MetricsMiddleware was constructed with
    metricsSkip,   \* self.skip_paths of the MetricsMiddleware
    track,         \* self.track_in_progress
    gauge,         \* http_requests_in_progress, per endpoint
    counts,        \* http_requests_total, per endpoint and status
    observed,      \* observations of http_request_duration_seconds, per endpoint
    mreqs,         \* the requests inside MetricsMiddleware.dispatch
    metricsLast,   \* what the last finished dispatch of MetricsMiddleware did
    nRequests,     \* requests given to the middleware so far
    loggingArg,    \* the skip_paths argument LoggingMiddleware was constructed with
    loggingSkip,   \* self.skip_paths of the LoggingMiddleware
    otel,          \* OTEL_AVAILABLE
    lreqs,         \* the requests inside LoggingMiddleware.dispatch
    loggingLast,   \* what the last finished dispatch of LoggingMiddleware did
    hStatus,       \* status_code of the handler create_exception_handler returned
    hInitial,      \* initial_detail of that handler
    detail,        \* the dictionary `detail` the handler closes over
    handlerLast    \* the last exception the handler was given, and its response

\* The variables of the utilities around the managers.
urlVars == <<db_params, urls>>
tableVars == <<classes>>
loggerVars == <<configured, sinks, setupLast, nSetups, builtinConfigured, builtinLast>>
cacheVars == <<cache, cacheLast>>
metricsVars ==
    <<metricsArg, metricsSkip, track, gauge, counts, observed, mreqs, metricsLast>>
loggingVars == <<loggingArg, loggingSkip, otel, lreqs, loggingLast>>
handlerVars == <<hStatus, hInitial, detail, handlerLast>>
\* The variables of the utilities for the web framework.
webVars == <<metricsVars, nRequests, loggingVars, handlerVars>>
utilVars == <<urlVars, tableVars, loggerVars, cacheVars, webVars>>

vars == <<variant, engine, sessionmaker, built, closed, scopes, last,
          nCalls, nDispose, nBegin, nFactory, sessions, threads, errors,
          db_params, urls, classes, configured, sinks, setupLast, nSetups,
          builtinConfigured, builtinLast,
          cache, cacheLast, metricsArg, metricsSkip, track, gauge, counts,
          observed, mreqs, metricsLast, nRequests, loggingArg, loggingSkip, otel,
          lreqs, loggingLast, hStatus, hInitial, detail, handlerLast>>

None == "None"
DbError == "SQLAlchemyError"
OtherError == "Exception"
\* How a library call, or the caller's block, ends.
Outcomes == {"ok", DbError, OtherError}
\* asyncio.CancelledError, raised in a task at the await it is suspended on
\* when the task is cancelled.  It is a BaseException: neither a
\* SQLAlchemyError nor an Exception.
Cancelled == "CancelledError"
\* How the caller's block ends: as a library call does, and in a task (the
\* async manager) also by cancellation.
BlockOutcomes(v) == IF v = "async" THEN Outcomes \cup {Cancelled} ELSE Outcomes
\* How rollback ends; it is called only in the `except SQLAlchemyError` clause.
RollbackOutcomes(blk) == IF blk = DbError THEN Outcomes ELSE {"ok"}

ScopeIds == 1..MaxScopes
\* Sessions are numbered by the factory call that made them.
SessionIds == 1..MaxCalls
ThreadIds == 1..MaxThreads
\* A thread that has not called the manager yet.
IdleThread == [op |-> "none", pc |-> "idle", checked |-> "unread", used |-> "unread",
               closing |-> FALSE,
               pending |-> [type |-> "None", msg |-> "", cause |-> "None"],
               exc |-> [type |-> "None", msg |-> "", cause |-> "None"], ev |-> <<>>]
FreeScope == [kind |-> "free", obj |-> 0, ev |-> <<>>]
OpenScopes == {s \in ScopeIds : scopes[s].kind # "free"}

----------------------------------------------------------------------------
\* Exceptions and events.

NoExc == [type |-> None, msg |-> "", cause |-> None]
\* raise ServiceError(m) from <the exception raised at c>
ServiceError(m, c) == [type |-> "ServiceError", msg |-> m, cause |-> c]
\* An exception of the library or of the block that leaves the manager as it is;
\* `at` names the call that raised it.
Escapes(t, at) == [type |-> t, msg |-> at, cause |-> None]

\* A call on a library handle and how it ended.
Call(name, outcome) == <<"call", name, outcome>>
\* self.logger.info(msg) / self.logger.error(msg)
Log(level, msg) == <<level, msg, "ok">>
\* The raise statement of a ServiceError.
RaiseEv(msg) == <<"raise", msg, "ok">>

\* How often the event (kind, name) occurs in ev.
Count(ev, kind, name) ==
    Cardinality({i \in DOMAIN ev : ev[i][1] = kind /\ ev[i][2] = name})

\* What a call finds when it starts: the handles, the call counters and the
\* number of open scopes.
Pre ==
    [engine |-> engine, sessionmaker |-> sessionmaker, nDispose |-> nDispose,
     nBegin |-> nBegin, nFactory |-> nFactory, nOpen |-> Cardinality(OpenScopes)]

\* The record of a finished call: op, the exception that reached the caller,
\* the events in order, the block's outcome (of a scope exit), what the call
\* found (Pre, and whether the manager was closed), the scope it opened or ended.
Done(op, exc, ev, blk, scope) ==
    [op |-> op, exc |-> exc, ev |-> ev, blk |-> blk,
     pre |-> Pre, afterClose |-> closed, scope |-> scope]

----------------------------------------------------------------------------
\* __init__: the engine and the session factory are whatever create_engine and
\* sessionmaker return.  The repository's tests build managers for which either
\* of them returned None.
EngineHandles == {"Engine", None}
SessionmakerHandles == {"Sessionmaker", None}

InitManager ==
    /\ variant \in {"sync", "async"}
    /\ engine \in EngineHandles
    /\ sessionmaker \in SessionmakerHandles
    /\ built = [engine |-> engine, sessionmaker |-> sessionmaker]
    /\ closed = FALSE
    /\ scopes = [s \in ScopeIds |-> FreeScope]
    /\ last = [op |-> "__init__", exc |-> NoExc,
               ev |-> <<Log("info", "Engine setup correctly")>>, blk |-> "none",
               pre |-> [engine |-> None, sessionmaker |-> None, nDispose |-> 0,
                        nBegin |-> 0, nFactory |-> 0, nOpen |-> 0],
               afterClose |-> FALSE, scope |-> 0]
    /\ nCalls = 0
    /\ nDispose = 0
    /\ nBegin = 0
    /\ nFactory = 0
    /\ sessions = [i \in SessionIds |-> 0]
    /\ threads = [t \in ThreadIds |-> IdleThread]
    /\ errors = <<>>

\* The connection parameters of the tests' fixture.
DefaultDbParams ==
    [drivername |-> "postgresql+psycopg2", username |-> "user", password |-> "pass",
     host |-> "localhost", database |-> "testdb", port |-> 5432]

InitUrlVars ==
    /\ db_params = DefaultDbParams
    /\ urls = {}

InitTableVars == classes = {}

\* The exception a setup call ends with; index and entry are those of the
\* message of the RuntimeError.
SetupExc(type, msg, index, entry, cause) ==
    [type |-> type, msg |-> msg, index |-> index, entry |-> entry, cause |-> cause]
NoSetupExc == SetupExc(None, "", 0, "", None)

\* logs_sinks = None
NoSinkList == [isNone |-> TRUE, items |-> <<>>]

\* A new LoguruLogging instance, and a logger with no sink of this module.
InitLoggerVars ==
    /\ configured = FALSE
    /\ sinks = <<>>
    /\ setupLast = [args |-> [logs_sinks |-> NoSinkList, default_config |-> FALSE],
                    exc |-> NoSetupExc, added |-> <<>>, rejected |-> 0,
                    pre |-> [configured |-> FALSE], prevExc |-> None,
                    sameArgs |-> FALSE]
    /\ nSetups = 0
    /\ builtinConfigured = FALSE
    /\ builtinLast = [args |-> [config_path |-> "", default_config |-> TRUE],
                      exc |-> None, opened |-> "", dictConfig |-> FALSE,
                      pre |-> [configured |-> FALSE], prevExc |-> None, calls |-> 0]

\* The users that ask, by id.
UserIds == {1, 2}
\* No call of a wrapped function yet.
NoCacheCall ==
    [question |-> <<>>, user |-> 0, hash |-> {}, hits |-> <<>>, exc |-> None,
     response |-> [status_code |-> 0, content |-> <<>>], called |-> FALSE]

\* An empty cache.
InitCacheVars ==
    /\ cache = [u \in UserIds |-> {}]
    /\ cacheLast = NoCacheCall

\* The paths of the requests, and the paths a skip set may hold.
RequestPaths == {"/api", "/health"}
Statuses == {200, 404, 503}
\* skip_paths = None, and skip_paths = a set.
NoSkipPaths == [isNone |-> TRUE, paths |-> {}]
SkipPaths(ps) == [isNone |-> FALSE, paths |-> ps]
SkipArgs == {NoSkipPaths, SkipPaths({}), SkipPaths({"/api"})}

\* `skip_paths or default`: the default replaces every argument that is
\* false, which None and the empty set are.
OrDefault(arg, default) ==
    IF arg.isNone \/ arg.paths = {} THEN default ELSE arg.paths

MetricsDefaultSkip == {"/health", "/ready"}
LoggingDefaultSkip == {"/health", "/metrics", "/ready"}

\* MetricsMiddleware.__init__(app, skip_paths, track_in_progress)
MetricsInit(arg, trk) ==
    /\ metricsArg = arg
    /\ metricsSkip = OrDefault(arg, MetricsDefaultSkip)
    /\ track = trk
    /\ gauge = [p \in RequestPaths |-> 0]
    /\ counts = [l \in RequestPaths \X (Statuses \cup {500}) |-> 0]
    /\ observed = [p \in RequestPaths |-> 0]

RequestIds == 1..MaxInFlight
IdleRequest == [pc |-> "idle", path |-> ""]
\* How call_next(request) ends: with a response, or with an exception.
Returned(status) == [kind |-> "response", status |-> status, exc |-> None]
Raised(exc) == [kind |-> "raise", status |-> 0, exc |-> exc]
HandlerOutcomes ==
    {Returned(st) : st \in Statuses} \cup {Raised(OtherError), Raised(Cancelled)}

NoMetricsCall ==
    [path |-> "", skipped |-> FALSE, outcome |-> Returned(0), exc |-> None,
     returned |-> 0, counted |-> <<>>, observed |-> 0, gaugeUp |-> 0, gaugeDown |-> 0]

\* A MetricsMiddleware with the arguments of the package's example, and no
\* request yet.
InitMetricsVars ==
    /\ MetricsInit(SkipPaths({"/health", "/metrics", "/ready"}), TRUE)
    /\ mreqs = [r \in RequestIds |-> IdleRequest]
    /\ metricsLast = NoMetricsCall

\* LoggingMiddleware.__init__(app, logger_setup, skip_paths)
LoggingInit(arg) ==
    /\ loggingArg = arg
    /\ loggingSkip = OrDefault(arg, LoggingDefaultSkip)

IdleLogRequest == [pc |-> "idle", path |-> "", request_id |-> 0, span |-> FALSE]
NoLoggingCall ==
    [path |-> "", skipped |-> FALSE, outcome |-> Returned(0), exc |-> None,
     returned |-> 0, headers |-> {}, request_id |-> 0, written |-> <<>>]

\* A LoggingMiddleware with the arguments of the package's example, in a
\* process without opentelemetry, and no request yet.
InitLoggingVars ==
    /\ LoggingInit(SkipPaths({"/health", "/metrics", "/ready"}))
    /\ otel = FALSE
    /\ lreqs = [r \in RequestIds |-> IdleLogRequest]
    /\ loggingLast = NoLoggingCall

\* The exceptions a handler is given: their message and name attributes.
NoHandlerCall == [message |-> "", name |-> "", status_code |-> 0, content |-> ""]

\* create_exception_handler(404, "Entity does not exist"), not called yet.
HandlerInit(status_code, initial_detail) ==
    /\ hStatus = status_code
    /\ hInitial = initial_detail
    /\ detail = [message |-> initial_detail, name |-> ""]
    /\ handlerLast = NoHandlerCall

InitHandlerVars == HandlerInit(404, "Entity does not exist")

InitWebVars ==
    /\ InitMetricsVars
    /\ nRequests = 0
    /\ InitLoggingVars
    /\ InitHandlerVars

\* The utilities as they are when nothing has used them.
InitUtil ==
    /\ InitUrlVars
    /\ InitTableVars
    /\ InitLoggerVars
    /\ InitCacheVars
    /\ InitWebVars

\* An Open sync manager, for the models of the utilities.
InitOpenManager ==
    /\ InitManager
    /\ variant = "sync"
    /\ engine # None
    /\ sessionmaker # None

Init ==
    /\ InitManager
    /\ InitUtil

----------------------------------------------------------------------------
\* close / async_close.

\* The events of the try block around dispose, for dispose outcome d.
CloseEvents(d) ==
    <<Call("dispose", d)>> \o
    (CASE d = "ok" -> <<Log("info", "Database engine disposed")>>
       [] d = DbError -> <<Log("error", "Error while disposing database engine"),
                           RaiseEv("Failed to close database engine")>>
       [] OTHER -> <<>>)

\* The exception that leaves close, for dispose outcome d.
CloseExc(d) ==
    CASE d = "ok" -> NoExc
      [] d = DbError -> ServiceError("Failed to close database engine", "dispose")
      [] OTHER -> Escapes(d, "dispose")

\* Mutant: close raises on a missing engine without logging.
CloseNotInitialized_Silent ==
    Done("close", ServiceError("Engine is not initialized", None),
         <<RaiseEv("Engine is not initialized")>>, "none", 0)

CloseNotInitialized ==
    Done("close", ServiceError("Engine is not initialized", None),
         <<Log("error", "Attempted to close a non-existing engine"),
           RaiseEv("Engine is not initialized")>>, "none", 0)

\* Mutant: the finally clause resets the engine only.
CloseBody_KeepsSessionmaker(d) ==
    /\ nCalls < MaxCalls
    /\ nCalls' = nCalls + 1
    /\ IF engine = None
       THEN /\ last' = CloseNotInitialized
            /\ UNCHANGED <<engine, sessionmaker, closed, nDispose>>
       ELSE /\ nDispose' = nDispose + 1
            /\ last' = Done("close", CloseExc(d), CloseEvents(d), "none", 0)
            /\ engine' = None
            /\ closed' = TRUE
            /\ UNCHANGED sessionmaker
    /\ UNCHANGED <<variant, built, scopes, nBegin, nFactory>>

\* Mutant: the finally clause resets the session factory only.
CloseBody_KeepsEngine(d) ==
    /\ nCalls < MaxCalls
    /\ nCalls' = nCalls + 1
    /\ IF engine = None
       THEN /\ last' = CloseNotInitialized
            /\ UNCHANGED <<engine, sessionmaker, closed, nDispose>>
       ELSE /\ nDispose' = nDispose + 1
            /\ last' = Done("close", CloseExc(d), CloseEvents(d), "none", 0)
            /\ sessionmaker' = None
            /\ closed' = TRUE
            /\ UNCHANGED engine
    /\ UNCHANGED <<variant, built, scopes, nBegin, nFactory>>

\* Mutant: no finally clause; the handles are reset after a dispose that returned.
CloseBody_NoFinally(d) ==
    /\ nCalls < MaxCalls
    /\ nCalls' = nCalls + 1
    /\ IF engine = None
       THEN /\ last' = CloseNotInitialized
            /\ UNCHANGED <<engine, sessionmaker, closed, nDispose>>
       ELSE /\ nDispose' = nDispose + 1
            /\ last' = Done("close", CloseExc(d), CloseEvents(d), "none", 0)
            /\ engine' = (IF d = "ok" THEN None ELSE engine)
            /\ sessionmaker' = (IF d = "ok" THEN None ELSE sessionmaker)
            /\ closed' = TRUE
    /\ UNCHANGED <<variant, built, scopes, nBegin, nFactory>>

\* Mutant: the engine check sits inside the try, so the finally clause also runs
\* when the engine is None.
CloseBody_CheckInsideTry(d) ==
    /\ nCalls < MaxCalls
    /\ nCalls' = nCalls + 1
    /\ IF engine = None
       THEN /\ last' = CloseNotInitialized
            /\ engine' = None
            /\ sessionmaker' = None
            /\ UNCHANGED <<closed, nDispose>>
       ELSE /\ nDispose' = nDispose + 1
            /\ last' = Done("close", CloseExc(d), CloseEvents(d), "none", 0)
            /\ engine' = None
            /\ sessionmaker' = None
            /\ closed' = TRUE
    /\ UNCHANGED <<variant, built, scopes, nBegin, nFactory>>

CloseBody(d) ==
    /\ nCalls < MaxCalls
    /\ nCalls' = nCalls + 1
    /\ IF engine = None
       THEN /\ last' = CloseNotInitialized
            /\ UNCHANGED <<engine, sessionmaker, closed, nDispose>>
       ELSE /\ nDispose' = nDispose + 1
            /\ last' = Done("close", CloseExc(d), CloseEvents(d), "none", 0)
            \* finally
            /\ engine' = None
            /\ sessionmaker' = None
            /\ closed' = TRUE
    /\ UNCHANGED <<variant, built, scopes, nBegin, nFactory>>

close ==
    /\ variant = "sync"
    /\ \E d \in Outcomes : CloseBody(d)
    /\ UNCHANGED <<sessions, threads, errors>>
    /\ UNCHANGED utilVars

async_close ==
    /\ variant = "async"
    /\ \E d \in Outcomes : CloseBody(d)
    /\ UNCHANGED <<sessions, threads, errors>>
    /\ UNCHANGED utilVars

----------------------------------------------------------------------------
\* connect / async_connect: a scope around the caller's block.

FreeSlots == {s \in ScopeIds : scopes[s].kind = "free"}
NextSlot == CHOOSE s \in FreeSlots : \A t \in FreeSlots : s <= t

ConnectNotInitialized ==
    Done("connect", ServiceError("Engine is not initialized", None),
         <<Log("error", "Engine is not available for connection"),
           RaiseEv("Engine is not initialized")>>, "none", 0)

\* with self.engine.begin() as connection: the call and the entry of the
\* transaction scope, which ends with outcome b.
BeginEvents(b) == <<Call("begin", "ok"), Call("__enter__", b)>>

\* Mutant: the engine check is missing; begin is called whatever the handle is.
ConnectEnterBody_NoCheck(b) ==
    /\ nCalls < MaxCalls
    /\ nCalls' = nCalls + 1
    /\ nBegin' = nBegin + 1
    /\ IF b = "ok"
       THEN /\ FreeSlots # {}
            /\ scopes' = [scopes EXCEPT ![NextSlot] =
                            [kind |-> "connect", obj |-> nBegin + 1,
                             ev |-> BeginEvents(b)]]
            /\ last' = Done("connect", NoExc, BeginEvents(b), "none", NextSlot)
       ELSE /\ last' = Done("connect", Escapes(b, "begin"), BeginEvents(b), "none", 0)
            /\ UNCHANGED scopes
    /\ UNCHANGED <<variant, engine, sessionmaker, built, closed, nDispose, nFactory>>

\* Mutant: when entering engine.begin() fails, begin is called a second time.
ConnectEnterBody_RetriesBegin(b) ==
    /\ nCalls < MaxCalls
    /\ nCalls' = nCalls + 1
    /\ IF engine = None
       THEN /\ last' = ConnectNotInitialized
            /\ UNCHANGED <<scopes, nBegin>>
       ELSE IF b = "ok"
            THEN /\ FreeSlots # {}
                 /\ nBegin' = nBegin + 1
                 /\ scopes' = [scopes EXCEPT ![NextSlot] =
                                 [kind |-> "connect", obj |-> nBegin + 1,
                                  ev |-> BeginEvents(b)]]
                 /\ last' = Done("connect", NoExc, BeginEvents(b), "none", NextSlot)
            ELSE /\ nBegin' = nBegin + 2
                 /\ last' = Done("connect", Escapes(b, "begin"),
                                 BeginEvents(b) \o BeginEvents(b), "none", 0)
                 /\ UNCHANGED scopes
    /\ UNCHANGED <<variant, engine, sessionmaker, built, closed, nDispose, nFactory>>

\* The manager up to its yield; b is the outcome of entering engine.begin().
ConnectEnterBody(b) ==
    /\ nCalls < MaxCalls
    /\ nCalls' = nCalls + 1
    /\ IF engine = None
       THEN /\ last' = ConnectNotInitialized
            /\ UNCHANGED <<scopes, nBegin>>
       ELSE /\ nBegin' = nBegin + 1
            /\ IF b = "ok"
               THEN /\ FreeSlots # {}
                    /\ scopes' = [scopes EXCEPT ![NextSlot] =
                                    [kind |-> "connect", obj |-> nBegin + 1,
                                     ev |-> BeginEvents(b)]]
                    /\ last' = Done("connect", NoExc, BeginEvents(b), "none", NextSlot)
               ELSE /\ last' = Done("connect", Escapes(b, "begin"), BeginEvents(b),
                                    "none", 0)
                    /\ UNCHANGED scopes
    /\ UNCHANGED <<variant, engine, sessionmaker, built, closed, nDispose, nFactory>>

\* Mutant: the except clause logs and raises without rolling back.
ConnectExitEvents_NoRollback(blk, rb, ex) ==
    (IF blk = DbError
     THEN <<Log("error", "Database error while using async connection"),
            RaiseEv("Database connection failed")>>
     ELSE <<>>)
    \o <<Call("__exit__", ex)>>

\* The events from the end of the block to the end of the scope: blk is how the
\* block ended, rb the outcome of connection.rollback(), ex the outcome of the
\* exit of the engine.begin() scope.
ConnectExitEvents(blk, rb, ex) ==
    (IF blk = DbError
     THEN <<Call("rollback", rb)>> \o
          (IF rb = "ok"
           THEN <<Log("error", "Database error while using async connection"),
                  RaiseEv("Database connection failed")>>
           ELSE <<>>)
     ELSE <<>>)
    \o <<Call("__exit__", ex)>>

\* Mutant: `raise ServiceError(...)` without `from exc`.
ConnectExitExc_NoCause(blk, rb, ex) ==
    CASE ex # "ok" -> Escapes(ex, "__exit__")
      [] blk = "ok" -> NoExc
      [] blk = DbError /\ rb = "ok" -> ServiceError("Database connection failed", None)
      [] blk = DbError /\ rb # "ok" -> Escapes(rb, "rollback")
      [] OTHER -> Escapes(blk, "block")

\* The exception that reaches the caller of the scope.
ConnectExitExc(blk, rb, ex) ==
    CASE ex # "ok" -> Escapes(ex, "__exit__")
      [] blk = "ok" -> NoExc
      [] blk = DbError /\ rb = "ok" -> ServiceError("Database connection failed", "block")
      [] blk = DbError /\ rb # "ok" -> Escapes(rb, "rollback")
      [] OTHER -> Escapes(blk, "block")

ConnectExitBody(s, blk, rb, ex) ==
    /\ scopes[s].kind = "connect"
    /\ last' = Done("connect_exit", ConnectExitExc(blk, rb, ex),
                    scopes[s].ev \o ConnectExitEvents(blk, rb, ex), blk, s)
    /\ scopes' = [scopes EXCEPT ![s] = FreeScope]
    /\ UNCHANGED <<variant, engine, sessionmaker, built, closed,
                   nCalls, nDispose, nBegin, nFactory>>

connect ==
    /\ variant = "sync"
    /\ \E b \in Outcomes : ConnectEnterBody(b)
    /\ UNCHANGED <<sessions, threads, errors>>
    /\ UNCHANGED utilVars

connect_exit ==
    /\ variant = "sync"
    /\ \E s \in ScopeIds, blk \in BlockOutcomes(variant), ex \in Outcomes :
          \E rb \in RollbackOutcomes(blk) : ConnectExitBody(s, blk, rb, ex)
    /\ UNCHANGED <<sessions, threads, errors>>
    /\ UNCHANGED utilVars

async_connect ==
    /\ variant = "async"
    /\ \E b \in Outcomes : ConnectEnterBody(b)
    /\ UNCHANGED <<sessions, threads, errors>>
    /\ UNCHANGED utilVars

async_connect_exit ==
    /\ variant = "async"
    /\ \E s \in ScopeIds, blk \in BlockOutcomes(variant), ex \in Outcomes :
          \E rb \in RollbackOutcomes(blk) : ConnectExitBody(s, blk, rb, ex)
    /\ UNCHANGED <<sessions, threads, errors>>
    /\ UNCHANGED utilVars

----------------------------------------------------------------------------
\* session / async_session: a scope around the caller's block.

SessionNotInitialized ==
    Done("session", ServiceError("Sessionmaker is not initialized", None),
         <<Log("error", "Sessionmaker is not available"),
           RaiseEv("Sessionmaker is not initialized")>>, "none", 0)

\* Mutant: the check reads self.engine instead of self._sessionmaker.
SessionEnterBody_ChecksEngine(f) ==
    /\ nCalls < MaxCalls
    /\ nCalls' = nCalls + 1
    /\ IF engine = None
       THEN /\ last' = SessionNotInitialized
            /\ UNCHANGED <<scopes, nFactory>>
       ELSE /\ nFactory' = nFactory + 1
            /\ IF f = "ok"
               THEN /\ FreeSlots # {}
                    /\ scopes' = [scopes EXCEPT ![NextSlot] =
                                    [kind |-> "session", obj |-> nFactory + 1,
                                     ev |-> <<Call("sessionmaker", f)>>]]
                    /\ last' = Done("session", NoExc, <<Call("sessionmaker", f)>>,
                                    "none", NextSlot)
               ELSE /\ last' = Done("session", Escapes(f, "sessionmaker"),
                                    <<Call("sessionmaker", f)>>, "none", 0)
                    /\ UNCHANGED scopes
    /\ UNCHANGED <<variant, engine, sessionmaker, built, closed, nDispose, nBegin>>

\* Mutant: the factory handle is dropped once a session has been made, so only
\* the first session call passes the check.
SessionEnterBody_SingleUse(f) ==
    /\ nCalls < MaxCalls
    /\ nCalls' = nCalls + 1
    /\ IF sessionmaker = None
       THEN /\ last' = SessionNotInitialized
            /\ UNCHANGED <<scopes, nFactory, sessionmaker>>
       ELSE /\ nFactory' = nFactory + 1
            /\ sessionmaker' = None
            /\ IF f = "ok"
               THEN /\ FreeSlots # {}
                    /\ scopes' = [scopes EXCEPT ![NextSlot] =
                                    [kind |-> "session", obj |-> nFactory + 1,
                                     ev |-> <<Call("sessionmaker", f)>>]]
                    /\ last' = Done("session", NoExc, <<Call("sessionmaker", f)>>,
                                    "none", NextSlot)
               ELSE /\ last' = Done("session", Escapes(f, "sessionmaker"),
                                    <<Call("sessionmaker", f)>>, "none", 0)
                    /\ UNCHANGED scopes
    /\ UNCHANGED <<variant, engine, built, closed, nDispose, nBegin>>

\* Mutant: the manager keeps the first session it made and hands it to every
\* later scope.
SessionEnterBody_Reuses(f) ==
    /\ nCalls < MaxCalls
    /\ nCalls' = nCalls + 1
    /\ IF sessionmaker = None
       THEN /\ last' = SessionNotInitialized
            /\ UNCHANGED <<scopes, nFactory>>
       ELSE /\ nFactory' = (IF nFactory = 0 THEN 1 ELSE nFactory)
            /\ IF f = "ok"
               THEN /\ FreeSlots # {}
                    /\ scopes' = [scopes EXCEPT ![NextSlot] =
                                    [kind |-> "session", obj |-> 1,
                                     ev |-> <<Call("sessionmaker", f)>>]]
                    /\ last' = Done("session", NoExc, <<Call("sessionmaker", f)>>,
                                    "none", NextSlot)
               ELSE /\ last' = Done("session", Escapes(f, "sessionmaker"),
                                    <<Call("sessionmaker", f)>>, "none", 0)
                    /\ UNCHANGED scopes
    /\ UNCHANGED <<variant, engine, sessionmaker, built, closed, nDispose, nBegin>>

\* The manager up to its yield; f is the outcome of self._sessionmaker().
SessionEnterBody(f) ==
    /\ nCalls < MaxCalls
    /\ nCalls' = nCalls + 1
    /\ IF sessionmaker = None
       THEN /\ last' = SessionNotInitialized
            /\ UNCHANGED <<scopes, nFactory>>
       ELSE /\ nFactory' = nFactory + 1
            /\ IF f = "ok"
               THEN /\ FreeSlots # {}
                    /\ scopes' = [scopes EXCEPT ![NextSlot] =
                                    [kind |-> "session", obj |-> nFactory + 1,
                                     ev |-> <<Call("sessionmaker", f)>>]]
                    /\ last' = Done("session", NoExc, <<Call("sessionmaker", f)>>,
                                    "none", NextSlot)
               ELSE /\ last' = Done("session", Escapes(f, "sessionmaker"),
                                    <<Call("sessionmaker", f)>>, "none", 0)
                    /\ UNCHANGED scopes
    /\ UNCHANGED <<variant, engine, sessionmaker, built, closed, nDispose, nBegin>>

\* Mutant: the session is closed first, and rolled back afterwards.
SessionExitEvents_CloseFirst(blk, rb, cl) ==
    <<Call("close", cl)>> \o
    (IF blk = DbError
     THEN <<Call("rollback", rb)>> \o
          (IF rb = "ok"
           THEN <<Log("error", "Database error while using async session"),
                  RaiseEv("Database session failed")>>
           ELSE <<>>)
     ELSE <<>>)

\* Mutant: close follows the try statement instead of sitting in a finally
\* clause, so it runs only when the block ended normally.
SessionExitEvents_NoFinally(blk, rb, cl) ==
    (IF blk = DbError
     THEN <<Call("rollback", rb)>> \o
          (IF rb = "ok"
           THEN <<Log("error", "Database error while using async session"),
                  RaiseEv("Database session failed")>>
           ELSE <<>>)
     ELSE <<>>)
    \o (IF blk = "ok" THEN <<Call("close", cl)>> ELSE <<>>)

\* Mutant: close sits in an `except Exception` clause and after the try
\* statement, not in a finally clause: a BaseException of the block skips it.
SessionExitEvents_CloseOnException(blk, rb, cl) ==
    (IF blk = DbError
     THEN <<Call("rollback", rb)>> \o
          (IF rb = "ok"
           THEN <<Log("error", "Database error while using async session"),
                  RaiseEv("Database session failed")>>
           ELSE <<>>)
     ELSE <<>>)
    \o (IF blk = Cancelled THEN <<>> ELSE <<Call("close", cl)>>)

\* Mutant: the except clause catches every exception of the block.
SessionExitEvents_CatchesAll(blk, rb, cl) ==
    (IF blk # "ok"
     THEN <<Call("rollback", rb)>> \o
          (IF rb = "ok"
           THEN <<Log("error", "Database error while using async session"),
                  RaiseEv("Database session failed")>>
           ELSE <<>>)
     ELSE <<>>)
    \o <<Call("close", cl)>>

\* Mutant: the manager commits the session when the block ended normally.
SessionExitEvents_CommitsOnSuccess(blk, rb, cl) ==
    (IF blk = DbError
     THEN <<Call("rollback", rb)>> \o
          (IF rb = "ok"
           THEN <<Log("error", "Database error while using async session"),
                  RaiseEv("Database session failed")>>
           ELSE <<>>)
     ELSE IF blk = "ok" THEN <<Call("commit", "ok")>> ELSE <<>>)
    \o <<Call("close", cl)>>

\* The events from the end of the block to the end of the scope: blk is how the
\* block ended, rb the outcome of session.rollback(), cl that of session.close().
SessionExitEvents(blk, rb, cl) ==
    (IF blk = DbError
     THEN <<Call("rollback", rb)>> \o
          (IF rb = "ok"
           THEN <<Log("error", "Database error while using async session"),
                  RaiseEv("Database session failed")>>
           ELSE <<>>)
     ELSE <<>>)
    \* finally
    \o <<Call("close", cl)>>

\* The exception that reaches the caller of the scope.
SessionExitExc(blk, rb, cl) ==
    CASE cl # "ok" -> Escapes(cl, "close")
      [] blk = "ok" -> NoExc
      [] blk = DbError /\ rb = "ok" -> ServiceError("Database session failed", "block")
      [] blk = DbError /\ rb # "ok" -> Escapes(rb, "rollback")
      [] OTHER -> Escapes(blk, "block")

\* Mutant: the manager keeps the session in a field, which every session call
\* overwrites; the exit of a scope works on the session made last.
SessionExitTarget_Shared(s) == nFactory

\* The session that the exit of scope s works on: the local variable `session`
\* of that call, bound to what its own factory call returned.
SessionExitTarget(s) == scopes[s].obj

\* The rollback and close calls of the exit of scope s, counted on the session
\* they are made on when that is not the session scope s was opened with.
SessionExitApplied(s, blk, rb, cl) ==
    IF SessionExitTarget(s) = scopes[s].obj
    THEN sessions
    ELSE [sessions EXCEPT ![SessionExitTarget(s)] =
              @ + Count(SessionExitEvents(blk, rb, cl), "call", "rollback")
                + Count(SessionExitEvents(blk, rb, cl), "call", "close")]

SessionExitBody(s, blk, rb, cl) ==
    /\ scopes[s].kind = "session"
    /\ last' = Done("session_exit", SessionExitExc(blk, rb, cl),
                    scopes[s].ev \o SessionExitEvents(blk, rb, cl), blk, s)
    /\ scopes' = [scopes EXCEPT ![s] = FreeScope]
    /\ UNCHANGED <<variant, engine, sessionmaker, built, closed,
                   nCalls, nDispose, nBegin, nFactory>>

session ==
    /\ variant = "sync"
    /\ \E f \in Outcomes : SessionEnterBody(f)
    /\ UNCHANGED <<sessions, threads, errors>>
    /\ UNCHANGED utilVars

session_exit ==
    /\ variant = "sync"
    /\ \E s \in ScopeIds, blk \in BlockOutcomes(variant), cl \in Outcomes :
          \E rb \in RollbackOutcomes(blk) :
              /\ SessionExitBody(s, blk, rb, cl)
              /\ sessions' = SessionExitApplied(s, blk, rb, cl)
    /\ UNCHANGED <<threads, errors>>
    /\ UNCHANGED utilVars

async_session ==
    /\ variant = "async"
    /\ \E f \in Outcomes : SessionEnterBody(f)
    /\ UNCHANGED <<sessions, threads, errors>>
    /\ UNCHANGED utilVars

async_session_exit ==
    /\ variant = "async"
    /\ \E s \in ScopeIds, blk \in BlockOutcomes(variant), cl \in Outcomes :
          \E rb \in RollbackOutcomes(blk) :
              /\ SessionExitBody(s, blk, rb, cl)
              /\ sessions' = SessionExitApplied(s, blk, rb, cl)
    /\ UNCHANGED <<threads, errors>>
    /\ UNCHANGED utilVars

----------------------------------------------------------------------------
Next ==
    \/ connect
    \/ connect_exit
    \/ session
    \/ session_exit
    \/ async_connect
    \/ async_connect_exit
    \/ async_session
    \/ async_session_exit
    \/ close
    \/ async_close

Spec == Init /\ [][Next]_vars

----------------------------------------------------------------------------
\* SyncDatabaseManager called from several threads.  The manager has no lock,
\* so a thread can be preempted between any two statements: a call is split
\* at every read and write of self.engine and self._sessionmaker.  A thread's
\* record holds the call it is in (op), the statement it is at (pc), the
\* handle its check read (checked), the handle its use read (used), the
\* exception waiting for the end of a finally clause (pending), and the
\* exception and the events of the finished call.

\* None.dispose / None.begin, and None().
AttributeError == "AttributeError"
TypeError == "TypeError"

ThreadAt(t, op, pc) == threads[t].op = op /\ threads[t].pc = pc

\* What no statement of a thread changes.
ThreadFrame ==
    /\ UNCHANGED <<variant, built, closed, scopes, last, nCalls, sessions, errors>>
    /\ UNCHANGED utilVars

\* A thread calls close, connect or session.
thread_call ==
    /\ \E t \in ThreadIds, op \in {"close", "connect", "session"} :
          /\ threads[t].pc = "idle"
          /\ threads' = [threads EXCEPT ![t] =
                            [IdleThread EXCEPT !.op = op, !.pc = "check"]]
    /\ UNCHANGED <<engine, sessionmaker, nDispose, nBegin, nFactory>>
    /\ ThreadFrame

\* close: if self.engine is None: log, raise
thread_close_check ==
    /\ \E t \in ThreadIds :
          /\ ThreadAt(t, "close", "check")
          /\ threads' = [threads EXCEPT ![t] =
                IF engine = None
                THEN [@ EXCEPT !.checked = engine, !.pc = "done",
                               !.exc = CloseNotInitialized.exc,
                               !.ev = CloseNotInitialized.ev]
                ELSE [@ EXCEPT !.checked = engine, !.pc = "dispose"]]
    /\ UNCHANGED <<engine, sessionmaker, nDispose, nBegin, nFactory>>
    /\ ThreadFrame

\* close: try: self.engine.dispose() ... except SQLAlchemyError.  self.engine
\* is read again; on None the attribute lookup raises AttributeError, which
\* the except clause does not catch.
thread_close_dispose ==
    /\ \E t \in ThreadIds, d \in Outcomes :
          /\ ThreadAt(t, "close", "dispose")
          /\ IF engine = None
             THEN /\ threads' = [threads EXCEPT ![t] =
                        [@ EXCEPT !.used = engine, !.pc = "finally",
                                  !.pending = Escapes(AttributeError, "dispose")]]
                  /\ UNCHANGED nDispose
             ELSE /\ nDispose' = nDispose + 1
                  /\ threads' = [threads EXCEPT ![t] =
                        [@ EXCEPT !.used = engine, !.pc = "finally",
                                  !.ev = CloseEvents(d),
                                  !.pending = CloseExc(d)]]
    /\ UNCHANGED <<engine, sessionmaker, nBegin, nFactory>>
    /\ ThreadFrame

\* close: finally: self.engine = None
thread_close_finally ==
    /\ \E t \in ThreadIds :
          /\ ThreadAt(t, "close", "finally")
          /\ threads' = [threads EXCEPT ![t].pc = "finally2"]
    /\ engine' = None
    /\ UNCHANGED <<sessionmaker, nDispose, nBegin, nFactory>>
    /\ ThreadFrame

\* close: finally: self._sessionmaker = None, and the end of the call.
thread_close_finally2 ==
    /\ \E t \in ThreadIds :
          /\ ThreadAt(t, "close", "finally2")
          /\ threads' = [threads EXCEPT ![t] =
                            [@ EXCEPT !.pc = "done", !.exc = threads[t].pending]]
    /\ sessionmaker' = None
    /\ UNCHANGED <<engine, nDispose, nBegin, nFactory>>
    /\ ThreadFrame

\* connect: if self.engine is None: log, raise
thread_connect_check ==
    /\ \E t \in ThreadIds :
          /\ ThreadAt(t, "connect", "check")
          /\ threads' = [threads EXCEPT ![t] =
                IF engine = None
                THEN [@ EXCEPT !.checked = engine, !.pc = "done",
                               !.exc = ConnectNotInitialized.exc,
                               !.ev = ConnectNotInitialized.ev]
                ELSE [@ EXCEPT !.checked = engine, !.pc = "begin"]]
    /\ UNCHANGED <<engine, sessionmaker, nDispose, nBegin, nFactory>>
    /\ ThreadFrame

\* Mutant: the check is made again where the engine is used.
ThreadConnectBegin_Rechecks(t, b) ==
    /\ ThreadAt(t, "connect", "begin")
    /\ IF engine = None
       THEN /\ threads' = [threads EXCEPT ![t] =
                  [@ EXCEPT !.used = engine, !.pc = "done",
                            !.exc = ConnectNotInitialized.exc,
                            !.ev = ConnectNotInitialized.ev]]
            /\ UNCHANGED nBegin
       ELSE /\ nBegin' = nBegin + 1
            /\ threads' = [threads EXCEPT ![t] =
                  [@ EXCEPT !.used = engine, !.ev = BeginEvents(b),
                            !.pc = IF b = "ok" THEN "block" ELSE "done",
                            !.exc = IF b = "ok" THEN NoExc ELSE Escapes(b, "begin")]]

\* connect: with self.engine.begin() as connection.  self.engine is read
\* again, outside any try statement; on None the attribute lookup raises
\* AttributeError.
ThreadConnectBegin(t, b) ==
    /\ ThreadAt(t, "connect", "begin")
    /\ IF engine = None
       THEN /\ threads' = [threads EXCEPT ![t] =
                  [@ EXCEPT !.used = engine, !.pc = "done",
                            !.exc = Escapes(AttributeError, "begin")]]
            /\ UNCHANGED nBegin
       ELSE /\ nBegin' = nBegin + 1
            /\ threads' = [threads EXCEPT ![t] =
                  [@ EXCEPT !.used = engine, !.ev = BeginEvents(b),
                            !.pc = IF b = "ok" THEN "block" ELSE "done",
                            !.exc = IF b = "ok" THEN NoExc ELSE Escapes(b, "begin")]]

thread_connect_begin ==
    /\ \E t \in ThreadIds, b \in Outcomes : ThreadConnectBegin(t, b)
    /\ UNCHANGED <<engine, sessionmaker, nDispose, nFactory>>
    /\ ThreadFrame

\* connect: from the end of the caller's block to the end of the scope.
thread_connect_exit ==
    /\ \E t \in ThreadIds, blk \in Outcomes, ex \in Outcomes :
       \E rb \in RollbackOutcomes(blk) :
          /\ ThreadAt(t, "connect", "block")
          /\ threads' = [threads EXCEPT ![t] =
                [@ EXCEPT !.pc = "done",
                          !.ev = @ \o ConnectExitEvents(blk, rb, ex),
                          !.exc = ConnectExitExc(blk, rb, ex)]]
    /\ UNCHANGED <<engine, sessionmaker, nDispose, nBegin, nFactory>>
    /\ ThreadFrame

\* session: if not self._sessionmaker: log, raise
thread_session_check ==
    /\ \E t \in ThreadIds :
          /\ ThreadAt(t, "session", "check")
          /\ threads' = [threads EXCEPT ![t] =
                IF sessionmaker = None
                THEN [@ EXCEPT !.checked = sessionmaker, !.pc = "done",
                               !.exc = SessionNotInitialized.exc,
                               !.ev = SessionNotInitialized.ev]
                ELSE [@ EXCEPT !.checked = sessionmaker, !.pc = "factory"]]
    /\ UNCHANGED <<engine, sessionmaker, nDispose, nBegin, nFactory>>
    /\ ThreadFrame

\* session: session = self._sessionmaker().  self._sessionmaker is read again,
\* outside the try statement; calling None raises TypeError.
thread_session_factory ==
    /\ \E t \in ThreadIds, f \in Outcomes :
          /\ ThreadAt(t, "session", "factory")
          /\ IF sessionmaker = None
             THEN /\ threads' = [threads EXCEPT ![t] =
                        [@ EXCEPT !.used = sessionmaker, !.pc = "done",
                                  !.exc = Escapes(TypeError, "sessionmaker")]]
                  /\ UNCHANGED nFactory
             ELSE /\ nFactory' = nFactory + 1
                  /\ threads' = [threads EXCEPT ![t] =
                        [@ EXCEPT !.used = sessionmaker,
                                  !.ev = <<Call("sessionmaker", f)>>,
                                  !.pc = IF f = "ok" THEN "block" ELSE "done",
                                  !.exc = IF f = "ok" THEN NoExc
                                          ELSE Escapes(f, "sessionmaker")]]
    /\ UNCHANGED <<engine, sessionmaker, nDispose, nBegin>>
    /\ ThreadFrame

\* session: from the end of the caller's block to the end of the scope.
thread_session_exit ==
    /\ \E t \in ThreadIds, blk \in Outcomes, cl \in Outcomes :
       \E rb \in RollbackOutcomes(blk) :
          /\ ThreadAt(t, "session", "block")
          /\ threads' = [threads EXCEPT ![t] =
                [@ EXCEPT !.pc = "done",
                          !.ev = @ \o SessionExitEvents(blk, rb, cl),
                          !.exc = SessionExitExc(blk, rb, cl)]]
    /\ UNCHANGED <<engine, sessionmaker, nDispose, nBegin, nFactory>>
    /\ ThreadFrame

InitThreads == Init /\ variant = "sync"

NextThreads ==
    \/ thread_call
    \/ thread_close_check
    \/ thread_close_dispose
    \/ thread_close_finally
    \/ thread_close_finally2
    \/ thread_connect_check
    \/ thread_connect_begin
    \/ thread_connect_exit
    \/ thread_session_check
    \/ thread_session_factory
    \/ thread_session_exit

SpecThreads == InitThreads /\ [][NextThreads]_vars

----------------------------------------------------------------------------
\* AsyncDatabaseManager called from several tasks of one event loop.  A task
\* is not interrupted between two awaits, so the check of a handle and the
\* call that follows it are one step; the task is suspended in
\* `await self.engine.dispose()` and in the entry of `async with
\* self.engine.begin()`.  The tasks use the records of `threads`; `closing` says
\* that, when the call made its check, an async_close of another task was
\* suspended in dispose.

\* An async_close of a task other than t has called dispose and has not resumed.
Disposing(t) ==
    \E u \in ThreadIds \ {t} : ThreadAt(u, "close", "dispose")

\* A task calls async_close, async_connect or async_session.
task_call ==
    /\ \E t \in ThreadIds, op \in {"close", "connect", "session"} :
          /\ threads[t].pc = "idle"
          /\ threads' = [threads EXCEPT ![t] =
                            [IdleThread EXCEPT !.op = op, !.pc = "check"]]
    /\ UNCHANGED <<engine, sessionmaker, nDispose, nBegin, nFactory>>
    /\ ThreadFrame

\* async_close up to its await: the engine check, then the call of
\* self.engine.dispose(), in which the task is suspended.
task_close_check ==
    /\ \E t \in ThreadIds :
          /\ ThreadAt(t, "close", "check")
          /\ IF engine = None
             THEN /\ threads' = [threads EXCEPT ![t] =
                        [@ EXCEPT !.checked = engine, !.pc = "done",
                                  !.exc = CloseNotInitialized.exc,
                                  !.ev = CloseNotInitialized.ev]]
                  /\ UNCHANGED nDispose
             ELSE /\ nDispose' = nDispose + 1
                  /\ threads' = [threads EXCEPT ![t] =
                        [@ EXCEPT !.checked = engine, !.used = engine,
                                  !.pc = "dispose"]]
    /\ UNCHANGED <<engine, sessionmaker, nBegin, nFactory>>
    /\ ThreadFrame

\* async_close from the end of dispose: the log or the except clause, then the
\* finally clause, which resets both handles.
task_close_resume ==
    /\ \E t \in ThreadIds, d \in Outcomes :
          /\ ThreadAt(t, "close", "dispose")
          /\ threads' = [threads EXCEPT ![t] =
                [@ EXCEPT !.pc = "done", !.ev = CloseEvents(d), !.exc = CloseExc(d)]]
    /\ engine' = None
    /\ sessionmaker' = None
    /\ UNCHANGED <<nDispose, nBegin, nFactory>>
    /\ ThreadFrame

\* async_connect up to its first await: the engine check, then the call of
\* self.engine.begin(); the task is suspended entering the transaction scope.
task_connect_check ==
    /\ \E t \in ThreadIds :
          /\ ThreadAt(t, "connect", "check")
          /\ IF engine = None
             THEN /\ threads' = [threads EXCEPT ![t] =
                        [@ EXCEPT !.checked = engine, !.pc = "done",
                                  !.closing = Disposing(t),
                                  !.exc = ConnectNotInitialized.exc,
                                  !.ev = ConnectNotInitialized.ev]]
                  /\ UNCHANGED nBegin
             ELSE /\ nBegin' = nBegin + 1
                  /\ threads' = [threads EXCEPT ![t] =
                        [@ EXCEPT !.checked = engine, !.used = engine,
                                  !.closing = Disposing(t), !.pc = "enter"]]
    /\ UNCHANGED <<engine, sessionmaker, nDispose, nFactory>>
    /\ ThreadFrame

\* async_connect: the entry of the transaction scope ends with outcome b; on
\* "ok" the connection is handed to the caller's block.
task_connect_enter ==
    /\ \E t \in ThreadIds, b \in Outcomes :
          /\ ThreadAt(t, "connect", "enter")
          /\ threads' = [threads EXCEPT ![t] =
                [@ EXCEPT !.ev = BeginEvents(b),
                          !.pc = IF b = "ok" THEN "block" ELSE "done",
                          !.exc = IF b = "ok" THEN NoExc ELSE Escapes(b, "begin")]]
    /\ UNCHANGED <<engine, sessionmaker, nDispose, nBegin, nFactory>>
    /\ ThreadFrame

\* async_connect: from the end of the caller's block to the end of the scope.
task_connect_exit ==
    /\ \E t \in ThreadIds, blk \in BlockOutcomes("async"), ex \in Outcomes :
       \E rb \in RollbackOutcomes(blk) :
          /\ ThreadAt(t, "connect", "block")
          /\ threads' = [threads EXCEPT ![t] =
                [@ EXCEPT !.pc = "done",
                          !.ev = @ \o ConnectExitEvents(blk, rb, ex),
                          !.exc = ConnectExitExc(blk, rb, ex)]]
    /\ UNCHANGED <<engine, sessionmaker, nDispose, nBegin, nFactory>>
    /\ ThreadFrame

\* async_session up to its yield: the check and the call of the factory, which
\* is not awaited; on "ok" the session is handed to the caller's block.
task_session_check ==
    /\ \E t \in ThreadIds, f \in Outcomes :
          /\ ThreadAt(t, "session", "check")
          /\ IF sessionmaker = None
             THEN /\ threads' = [threads EXCEPT ![t] =
                        [@ EXCEPT !.checked = sessionmaker, !.pc = "done",
                                  !.closing = Disposing(t),
                                  !.exc = SessionNotInitialized.exc,
                                  !.ev = SessionNotInitialized.ev]]
                  /\ UNCHANGED nFactory
             ELSE /\ nFactory' = nFactory + 1
                  /\ threads' = [threads EXCEPT ![t] =
                        [@ EXCEPT !.checked = sessionmaker, !.used = sessionmaker,
                                  !.closing = Disposing(t),
                                  !.ev = <<Call("sessionmaker", f)>>,
                                  !.pc = IF f = "ok" THEN "block" ELSE "done",
                                  !.exc = IF f = "ok" THEN NoExc
                                          ELSE Escapes(f, "sessionmaker")]]
    /\ UNCHANGED <<engine, sessionmaker, nDispose, nBegin>>
    /\ ThreadFrame

\* async_session: from the end of the caller's block to the end of the scope.
task_session_exit ==
    /\ \E t \in ThreadIds, blk \in BlockOutcomes("async"), cl \in Outcomes :
       \E rb \in RollbackOutcomes(blk) :
          /\ ThreadAt(t, "session", "block")
          /\ threads' = [threads EXCEPT ![t] =
                [@ EXCEPT !.pc = "done",
                          !.ev = @ \o SessionExitEvents(blk, rb, cl),
                          !.exc = SessionExitExc(blk, rb, cl)]]
    /\ UNCHANGED <<engine, sessionmaker, nDispose, nBegin, nFactory>>
    /\ ThreadFrame

InitTasks == Init /\ variant = "async"

NextTasks ==
    \/ task_call
    \/ task_close_check
    \/ task_close_resume
    \/ task_connect_check
    \/ task_connect_enter
    \/ task_connect_exit
    \/ task_session_check
    \/ task_session_exit

SpecTasks == InitTasks /\ [][NextTasks]_vars

----------------------------------------------------------------------------
\* ServiceError, the exception class that the managers, the logger and the
\* tests import from database.general.  Python values are tagged with their
\* type, so that None and the string 'None' are different values.

PyNone == [type |-> "NoneType", val |-> ""]
PyStr(x) == [type |-> "str", val |-> x]
\* str(v) of a value that is None or a string.
str(v) == IF v.type = "NoneType" THEN PyStr("None") ELSE v

\* The message arguments a ServiceError is constructed with.
Messages ==
    {PyStr("Database connection failed"), PyStr("Engine is not initialized"),
     PyStr("Sessionmaker is not initialized"), PyStr("Test error"), PyStr(""),
     PyStr("None")}
\* The positional arguments of a constructor call: none, None, or a message.
ServiceErrorArgs == {<<>>, <<PyNone>>} \cup {<<m>> : m \in Messages}

\* Mutant: a constructor with a default message text.
ServiceError_init_DefaultMessage(args) ==
    [type |-> "ServiceError",
     msg |-> IF args = <<>> THEN PyStr("Service is unavailable") ELSE args[1]]

\* ServiceError(*args): the instance, with its msg attribute.
ServiceError_init(args) ==
    [type |-> "ServiceError", msg |-> IF args = <<>> THEN PyNone ELSE args[1]]

\* str(error)
ServiceError_str(e) == str(e.msg)

\* A ServiceError is constructed and its attribute and its text are read.
service_error ==
    /\ Len(errors) < MaxErrors
    /\ \E args \in ServiceErrorArgs :
          errors' = Append(errors,
                           [args |-> args,
                            msg |-> ServiceError_init(args).msg,
                            str |-> ServiceError_str(ServiceError_init(args))])
    /\ UNCHANGED <<variant, engine, sessionmaker, built, closed, scopes, last,
                   nCalls, nDispose, nBegin, nFactory, sessions, threads>>
    /\ UNCHANGED utilVars

\* The variables of the managers, which the utilities leave alone.
managerVars ==
    <<variant, engine, sessionmaker, built, closed, scopes, last,
      nCalls, nDispose, nBegin, nFactory, sessions, threads, errors>>

NextServiceError == service_error

SpecServiceError == Init /\ [][NextServiceError]_vars

----------------------------------------------------------------------------
\* BaseSessionManager.create_url, on a sync manager that is also connected to,
\* asked for sessions and closed.

\* Connection parameters: DefineGeneralDb instances.
DbParams ==
    {[drivername |-> "postgresql+asyncpg", username |-> "user", password |-> "pass",
      host |-> "localhost", database |-> "testdb", port |-> 5432],
     [drivername |-> "mysql+pymysql", username |-> "root", password |-> "",
      host |-> "db", database |-> "shop", port |-> 3306]}

\* db_params.model_dump(): the dictionary of the six fields by name.
model_dump(p) ==
    [f \in {"drivername", "username", "password", "host", "database", "port"} |->
        p[f]]

\* Mutant: the URL holds a masked password.
URL_create_HidesPassword(kw) ==
    [drivername |-> kw["drivername"], username |-> kw["username"],
     password |-> "***", host |-> kw["host"],
     port |-> kw["port"], database |-> kw["database"], query |-> <<>>]

\* URL.create(**kw): the URL with the fields given by keyword and an empty query.
URL_create(kw) ==
    [drivername |-> kw["drivername"], username |-> kw["username"],
     password |-> kw["password"], host |-> kw["host"],
     port |-> kw["port"], database |-> kw["database"], query |-> <<>>]

\* create_url(); `closed` says whether the manager had been closed before.
create_url ==
    /\ urls' = urls \cup {[url |-> URL_create(model_dump(db_params)),
                           closed |-> closed]}
    /\ UNCHANGED db_params
    /\ UNCHANGED managerVars
    /\ UNCHANGED <<tableVars, loggerVars, cacheVars, webVars>>

InitUrl ==
    /\ InitOpenManager
    /\ db_params \in DbParams
    /\ urls = {}
    /\ InitTableVars
    /\ InitLoggerVars
    /\ InitCacheVars
    /\ InitWebVars

NextUrl ==
    \/ create_url
    \/ connect
    \/ connect_exit
    \/ session
    \/ session_exit
    \/ close

SpecUrl == InitUrl /\ [][NextUrl]_vars

----------------------------------------------------------------------------
\* MixInNameTable: the default table name of a mapped class.

\* The characters of class names and table names: each letter in its two
\* cases, and the underscore.
CasePairs == {<<"U", "u">>, <<"P", "p">>}
UpperChars == {p[1] : p \in CasePairs}
LowerChars == {p[2] : p \in CasePairs}
Chars == UpperChars \cup LowerChars

\* Class names of one or two characters.
ClassNames == {<<c>> : c \in Chars} \cup {<<c, d>> : c, d \in Chars}

\* What a class body may assign to __tablename__ itself.
OwnTableNames == {<<"t">>}
\* The class body does not assign __tablename__.
NoTableName == <<>>

\* str.lower for one character.
lower_char(c) ==
    IF c \in UpperChars THEN (CHOOSE p \in CasePairs : p[1] = c)[2] ELSE c

\* Mutant: snake case, an underscore before each upper-case letter but the first.
RECURSIVE lower_SnakeCase(_)
lower_SnakeCase(name) ==
    IF name = <<>> THEN <<>>
    ELSE LET n == Len(name)
             init == lower_SnakeCase(SubSeq(name, 1, n - 1))
         IN  IF n > 1 /\ name[n] \in UpperChars
             THEN init \o <<"_", lower_char(name[n])>>
             ELSE Append(init, lower_char(name[n]))

\* str.lower(): every character in lower case, nothing added or removed.
lower(name) == [i \in DOMAIN name |-> lower_char(name[i])]

\* cls.__tablename__ for a class named name whose body assigns own (or does
\* not assign it): the attribute of the class itself wins over the mixin's.
tablename(name, own) == IF own # NoTableName THEN own ELSE lower(name)

\* class <name>(MixInNameTable): ..., and the read of its __tablename__.
declare_class ==
    /\ Cardinality(classes) < MaxClasses
    /\ \E name \in ClassNames, own \in OwnTableNames \cup {NoTableName} :
          classes' = classes \cup {[name |-> name, own |-> own,
                                    tablename |-> tablename(name, own)]}
    /\ UNCHANGED managerVars
    /\ UNCHANGED <<urlVars, loggerVars, cacheVars, webVars>>

InitNameTable ==
    /\ InitOpenManager
    /\ InitUtil

NextNameTable == declare_class

SpecNameTable == InitNameTable /\ [][NextNameTable]_vars

----------------------------------------------------------------------------
\* LoguruLogging.setup.

\* The text of the ServiceError of setup; the line break of the source, after
\* a backslash, leaves the indentation of the next line in the string.
LogSinksText ==
    "log_sinks should be a valid list of dictionary \t\t\t\twith loguru configurations"
InvalidSinkText == "Invalid log sink configuration at index"

\* Sink configurations that _logger.add accepts, and that it rejects.
ValidSinks == {"stderr", "file"}
InvalidSinks == {"{}"}
SinkEntries == ValidSinks \cup InvalidSinks
\* The sinks of the default configuration.
DefaultSinks == <<"default stderr", "default file">>

\* The lists passed as logs_sinks: no, one or two entries.
SinkLists ==
    {<<>>} \cup {<<a>> : a \in SinkEntries} \cup {<<a, b>> : a, b \in SinkEntries}
SetupArgs ==
    [logs_sinks : {NoSinkList} \cup [isNone : {FALSE}, items : SinkLists],
     default_config : BOOLEAN]

\* How default_path.mkdir ends; it is called with default_config only.
MkdirOutcomes(a) == IF a.default_config THEN {"ok", "OSError"} ELSE {"ok"}

\* The exception _logger.add(**entry) raises for an entry it rejects.
AddError(entry) == [type |-> "TypeError", msg |-> entry, cause |-> None]

\* The position of the first entry of items that the logger rejects, 0 if it
\* accepts them all.
FirstRejected(items) ==
    IF \E i \in DOMAIN items : items[i] \in InvalidSinks
    THEN CHOOSE i \in DOMAIN items :
            /\ items[i] \in InvalidSinks
            /\ \A j \in 1..(i - 1) : items[j] \notin InvalidSinks
    ELSE 0

\* Mutant: the entries are numbered from 0.
SinkIndex_FromZero(pos) == pos - 1

\* enumerate(logs_sinks, start=1): the index of the entry at position pos.
SinkIndex(pos) == pos

\* Mutant: the entries added before the failure are removed again.
SetupLoop_UndoesAdded(items) ==
    LET i == FirstRejected(items)
    IN  IF i = 0
        THEN [configured |-> TRUE, added |-> items, rejected |-> 0,
              exc |-> NoSetupExc]
        ELSE [configured |-> FALSE, added |-> <<>>, rejected |-> i,
              exc |-> SetupExc("RuntimeError", InvalidSinkText, SinkIndex(i),
                               items[i], AddError(items[i]))]

\* Mutant: the loop skips an entry the logger rejects and goes on.
SetupLoop_SkipsRejected(items) ==
    [configured |-> TRUE,
     added |-> SelectSeq(items, LAMBDA e : e \notin InvalidSinks),
     rejected |-> FirstRejected(items), exc |-> NoSetupExc]

\* The loop over logs_sinks and the assignment after it.
SetupLoop(items) ==
    LET i == FirstRejected(items)
    IN  IF i = 0
        THEN [configured |-> TRUE, added |-> items, rejected |-> 0,
              exc |-> NoSetupExc]
        ELSE [configured |-> FALSE, added |-> SubSeq(items, 1, i - 1),
              rejected |-> i,
              exc |-> SetupExc("RuntimeError", InvalidSinkText, SinkIndex(i),
                               items[i], AddError(items[i]))]

\* Mutant: no check of _configured.
SetupBody_NoGuard(cfg, a, mk) ==
    IF a.default_config
    THEN IF mk = "ok"
         THEN [configured |-> TRUE, added |-> DefaultSinks, rejected |-> 0,
               exc |-> NoSetupExc]
         ELSE [configured |-> cfg, added |-> SubSeq(DefaultSinks, 1, 1),
               rejected |-> 0, exc |-> SetupExc(mk, "", 0, "", None)]
    ELSE IF a.logs_sinks.isNone
    THEN [configured |-> cfg, added |-> <<>>, rejected |-> 0,
          exc |-> SetupExc("ServiceError", LogSinksText, 0, "", None)]
    ELSE [configured |-> cfg \/ FirstRejected(a.logs_sinks.items) = 0,
          added |-> SubSeq(a.logs_sinks.items, 1,
                           IF FirstRejected(a.logs_sinks.items) = 0
                           THEN Len(a.logs_sinks.items)
                           ELSE FirstRejected(a.logs_sinks.items) - 1),
          rejected |-> FirstRejected(a.logs_sinks.items),
          exc |-> IF FirstRejected(a.logs_sinks.items) = 0 THEN NoSetupExc
                  ELSE SetupExc("RuntimeError", InvalidSinkText, 0, "", None)]

\* Mutant: the instance is marked configured before the arguments are looked at.
SetupNoSinks_MarksConfigured ==
    [configured |-> TRUE, added |-> <<>>, rejected |-> 0,
     exc |-> SetupExc("ServiceError", LogSinksText, 0, "", None)]

\* logs_sinks is None and default_config is False.
SetupNoSinks ==
    [configured |-> FALSE, added |-> <<>>, rejected |-> 0,
     exc |-> SetupExc("ServiceError", LogSinksText, 0, "", None)]

\* The setup calls made on the LoguruLogging instance.
LoguruCalls == nSetups - builtinLast.calls

\* The call setup(logs_sinks, default_config) on an instance whose _configured
\* is cfg, where mkdir ends with mk.
SetupBody(cfg, a, mk) ==
    IF cfg
    THEN [configured |-> TRUE, added |-> <<>>, rejected |-> 0, exc |-> NoSetupExc]
    ELSE IF a.default_config
    THEN IF mk = "ok"
         THEN [configured |-> TRUE, added |-> DefaultSinks, rejected |-> 0,
               exc |-> NoSetupExc]
         ELSE [configured |-> FALSE, added |-> SubSeq(DefaultSinks, 1, 1),
               rejected |-> 0, exc |-> SetupExc(mk, "", 0, "", None)]
    ELSE IF a.logs_sinks.isNone
    THEN SetupNoSinks
    ELSE SetupLoop(a.logs_sinks.items)

setup ==
    /\ nSetups < MaxSetups
    /\ \E a \in SetupArgs :
          \E mk \in MkdirOutcomes(a) :
             LET r == SetupBody(configured, a, mk)
             IN  /\ configured' = r.configured
                 /\ sinks' = sinks \o r.added
                 /\ setupLast' = [args |-> a, exc |-> r.exc, added |-> r.added,
                                  rejected |-> r.rejected,
                                  pre |-> [configured |-> configured],
                                  prevExc |-> setupLast.exc.type,
                                  sameArgs |-> LoguruCalls > 0 /\ a = setupLast.args]
    /\ nSetups' = nSetups + 1
    /\ UNCHANGED <<builtinConfigured, builtinLast>>
    /\ UNCHANGED managerVars
    /\ UNCHANGED <<urlVars, tableVars, cacheVars, webVars>>

\* The configuration files: the default one in the working directory, one of
\* the caller's, and a path where there is no file.
DefaultConfigPath == "logger.config.json"
ConfigPaths == {"custom.config.json", "missing.json"}
BuiltinArgs == [config_path : ConfigPaths, default_config : BOOLEAN]

\* How _config_path.open ends.
OpenOutcome(path) == IF path = "missing.json" THEN "FileNotFoundError" ELSE "ok"

\* Mutant: no check of _configured.
BuiltinSetupBody_NoGuard(cfg, a) ==
    LET path == IF a.default_config THEN DefaultConfigPath ELSE a.config_path
    IN  IF OpenOutcome(path) = "ok"
        THEN [configured |-> TRUE, opened |-> path, dictConfig |-> TRUE,
              exc |-> None]
        ELSE [configured |-> cfg, opened |-> path, dictConfig |-> FALSE,
              exc |-> OpenOutcome(path)]

\* BuiltinLogging.setup(config_path, default_config) on an instance whose
\* _configured is cfg.
BuiltinSetupBody(cfg, a) ==
    IF cfg
    THEN [configured |-> TRUE, opened |-> "", dictConfig |-> FALSE, exc |-> None]
    ELSE LET path == IF a.default_config THEN DefaultConfigPath ELSE a.config_path
         IN  IF OpenOutcome(path) = "ok"
             THEN [configured |-> TRUE, opened |-> path, dictConfig |-> TRUE,
                   exc |-> None]
             ELSE [configured |-> FALSE, opened |-> path, dictConfig |-> FALSE,
                   exc |-> OpenOutcome(path)]

builtin_setup ==
    /\ nSetups < MaxSetups
    /\ \E a \in BuiltinArgs :
          LET r == BuiltinSetupBody(builtinConfigured, a)
          IN  /\ builtinConfigured' = r.configured
              /\ builtinLast' = [args |-> a, exc |-> r.exc, opened |-> r.opened,
                                 dictConfig |-> r.dictConfig,
                                 pre |-> [configured |-> builtinConfigured],
                                 prevExc |-> builtinLast.exc,
                                 calls |-> builtinLast.calls + 1]
    /\ nSetups' = nSetups + 1
    /\ UNCHANGED <<configured, sinks, setupLast>>
    /\ UNCHANGED managerVars
    /\ UNCHANGED <<urlVars, tableVars, cacheVars, webVars>>

InitLogger ==
    /\ InitOpenManager
    /\ InitUtil

NextLogger ==
    \/ setup
    \/ builtin_setup

SpecLogger == InitLogger /\ [][NextLogger]_vars

----------------------------------------------------------------------------
\* cache_utils: the decorator that answers from the redis hash of the user.

\* The phrases of a question as they are written, and str.strip of each.
RawPhrases == {"hello", " hello ", "bye"}
strip(phrase) == IF phrase = " hello " THEN "hello" ELSE phrase
Phrases == {strip(p) : p \in RawPhrases}
\* question.phrase: no, one or two phrases.
Questions ==
    {<<>>} \cup {<<a>> : a \in RawPhrases} \cup {<<a, b>> : a, b \in RawPhrases}

\* Values of the program, with their type.
PyBytes(x) == [type |-> "bytes", val |-> x]

\* r.hexists(name, key) and r.hget(name, key) of the synchronous client
\* redis.Redis, where h is the hash called name: they return the result, not
\* an awaitable.  The answer stored for a phrase is written answer(phrase).
hexists(h, key) == key \in h
hget(h, key) == IF key \in h THEN PyBytes(<<"answer", key>>) ELSE PyNone
\* bytes.decode()
decode(b) == PyStr(b.val)

\* `await v`: the result of an awaitable; TypeError for any other object.
Await(v) ==
    IF v.type = "coroutine"
    THEN [exc |-> None, val |-> v.val]
    ELSE [exc |-> TypeError, val |-> PyNone]

\* The element the comprehension builds for a phrase that passed the filter.
CacheElement(h, phrase) == Await(decode(hget(h, strip(phrase))))

\* The phrases of question q that pass the filter of the comprehension.
CacheHits(h, q) == SelectSeq(q, LAMBDA phrase : hexists(h, strip(phrase)))

\* wrapper(question, user) for question.phrase = q and the hash h of the user.
CacheWrapper(h, q) ==
    LET hits == CacheHits(h, q)
    IN  IF hits = <<>>
        THEN \* response is empty: return func(question, user)
             [hits |-> hits, exc |-> None,
              response |-> [status_code |-> 0, content |-> <<>>], called |-> TRUE]
        ELSE IF \E i \in DOMAIN hits : CacheElement(h, hits[i]).exc # None
        THEN \* the comprehension raises at its first element
             [hits |-> hits,
              exc |-> CacheElement(h, hits[CHOOSE i \in DOMAIN hits :
                        /\ CacheElement(h, hits[i]).exc # None
                        /\ \A j \in 1..(i - 1) :
                              CacheElement(h, hits[j]).exc = None]).exc,
              response |-> [status_code |-> 0, content |-> <<>>], called |-> FALSE]
        ELSE [hits |-> hits, exc |-> None,
              response |-> [status_code |-> 200,
                            content |-> [i \in DOMAIN hits |->
                                           <<strip(hits[i]),
                                             CacheElement(h, hits[i]).val.val>>]],
              called |-> FALSE]

\* A call of a function decorated with cache_utils.
cache_call ==
    /\ \E q \in Questions, u \in UserIds :
          LET w == CacheWrapper(cache[u], q)
          IN  cacheLast' = [question |-> q, user |-> u, hash |-> cache[u],
                            hits |-> w.hits,
                            exc |-> w.exc, response |-> w.response,
                            called |-> w.called]
    /\ UNCHANGED cache
    /\ UNCHANGED managerVars
    /\ UNCHANGED <<urlVars, tableVars, loggerVars, webVars>>

\* Another part of the service stores the answer to a phrase in the hash of
\* a user; the decorator itself never writes.
cache_store ==
    /\ \E u \in UserIds, phrase \in Phrases :
          /\ phrase \notin cache[u]
          /\ cache' = [cache EXCEPT ![u] = @ \cup {phrase}]
    /\ UNCHANGED cacheLast
    /\ UNCHANGED managerVars
    /\ UNCHANGED <<urlVars, tableVars, loggerVars, webVars>>

InitCache ==
    /\ InitOpenManager
    /\ InitUtil

NextCache ==
    \/ cache_call
    \/ cache_store

SpecCache == InitCache /\ [][NextCache]_vars

----------------------------------------------------------------------------
\* MetricsMiddleware.dispatch, under several requests of one event loop.  A
\* dispatch runs without interruption up to `await call_next(request)`, and
\* from the end of call_next to its own end.

\* The variables MetricsMiddleware leaves alone.
notMetricsVars ==
    <<managerVars, urlVars, tableVars, loggerVars, cacheVars, loggingVars, handlerVars>>

\* The start of dispatch for a request to path, up to the await of call_next.
metrics_dispatch ==
    /\ nRequests < MaxRequests
    /\ \E r \in RequestIds, path \in RequestPaths :
          /\ mreqs[r].pc = "idle"
          /\ IF path \in metricsSkip
             THEN /\ mreqs' = [mreqs EXCEPT ![r] = [pc |-> "skipped", path |-> path]]
                  /\ UNCHANGED gauge
             ELSE /\ mreqs' = [mreqs EXCEPT ![r] = [pc |-> "handler", path |-> path]]
                  /\ gauge' = IF track THEN [gauge EXCEPT ![path] = @ + 1] ELSE gauge
    /\ nRequests' = nRequests + 1
    /\ UNCHANGED <<metricsArg, metricsSkip, track, counts, observed, metricsLast>>
    /\ UNCHANGED notMetricsVars

\* `return await call_next(request)` of a skipped path ends.
metrics_skip_return ==
    /\ \E r \in RequestIds, o \in HandlerOutcomes :
          /\ mreqs[r].pc = "skipped"
          /\ mreqs' = [mreqs EXCEPT ![r] = IdleRequest]
          /\ metricsLast' = [path |-> mreqs[r].path, skipped |-> TRUE, outcome |-> o,
                             exc |-> o.exc, returned |-> o.status, counted |-> <<>>,
                             observed |-> 0, gaugeUp |-> 0, gaugeDown |-> 0]
    /\ UNCHANGED <<metricsArg, metricsSkip, track, gauge, counts, observed, nRequests>>
    /\ UNCHANGED notMetricsVars

\* The local `status` when the finally clause starts: the status of the
\* response, 500 after `except Exception`, and unbound (0) when call_next ends
\* with an exception that is not an Exception.
StatusAfter(o) ==
    IF o.kind = "response" THEN o.status
    ELSE IF o.exc = OtherError THEN 500
    ELSE 0

\* The try statement of dispatch from the end of call_next on, for the
\* request in slot r and the outcome o of call_next.  With `status` unbound
\* the first statement of the finally clause that reads it raises
\* UnboundLocalError, and the rest of the clause is not run.
MetricsFinish(r, o) ==
    LET path == mreqs[r].path
        status == StatusAfter(o)
    IN  IF status = 0
        THEN /\ metricsLast' = [path |-> path, skipped |-> FALSE, outcome |-> o,
                                exc |-> "UnboundLocalError", returned |-> 0,
                                counted |-> <<>>, observed |-> 0,
                                gaugeUp |-> IF track THEN 1 ELSE 0, gaugeDown |-> 0]
             /\ UNCHANGED <<counts, observed, gauge>>
        ELSE /\ counts' = [counts EXCEPT ![<<path, status>>] = @ + 1]
             /\ observed' = [observed EXCEPT ![path] = @ + 1]
             /\ gauge' = IF track THEN [gauge EXCEPT ![path] = @ - 1] ELSE gauge
             /\ metricsLast' = [path |-> path, skipped |-> FALSE, outcome |-> o,
                                exc |-> o.exc, returned |-> o.status,
                                counted |-> <<status>>, observed |-> 1,
                                gaugeUp |-> IF track THEN 1 ELSE 0,
                                gaugeDown |-> IF track THEN 1 ELSE 0]

\* call_next ends for a request that is measured.
metrics_handler_return ==
    /\ \E r \in RequestIds, o \in HandlerOutcomes :
          /\ mreqs[r].pc = "handler"
          /\ MetricsFinish(r, o)
          /\ mreqs' = [mreqs EXCEPT ![r] = IdleRequest]
    /\ UNCHANGED <<metricsArg, metricsSkip, track, nRequests>>
    /\ UNCHANGED notMetricsVars

InitMetrics ==
    /\ InitOpenManager
    /\ InitUrlVars
    /\ InitTableVars
    /\ InitLoggerVars
    /\ InitCacheVars
    /\ \E arg \in SkipArgs, trk \in BOOLEAN : MetricsInit(arg, trk)
    /\ mreqs = [r \in RequestIds |-> IdleRequest]
    /\ metricsLast = NoMetricsCall
    /\ nRequests = 0
    /\ InitLoggingVars
    /\ InitHandlerVars

NextMetrics ==
    \/ metrics_dispatch
    \/ metrics_skip_return
    \/ metrics_handler_return

SpecMetrics == InitMetrics /\ [][NextMetrics]_vars

----------------------------------------------------------------------------
\* LoggingMiddleware.dispatch, under several requests of one event loop.

\* The variables LoggingMiddleware leaves alone.
notLoggingVars ==
    <<managerVars, urlVars, tableVars, loggerVars, cacheVars, metricsVars, handlerVars>>

\* The start of dispatch, up to the await of call_next.  _get_trace_context
\* generates a request ID (uuid4: one never used before) unless there is a
\* valid span, which needs opentelemetry.
logging_dispatch ==
    /\ nRequests < MaxRequests
    /\ \E r \in RequestIds, path \in RequestPaths, span \in {FALSE, otel} :
          /\ lreqs[r].pc = "idle"
          /\ lreqs' = [lreqs EXCEPT ![r] =
                IF path \in loggingSkip
                THEN [pc |-> "skipped", path |-> path, request_id |-> 0,
                      span |-> FALSE]
                ELSE [pc |-> "handler", path |-> path,
                      request_id |-> IF span THEN 0 ELSE nRequests + 1,
                      span |-> span]]
    /\ nRequests' = nRequests + 1
    /\ UNCHANGED <<loggingArg, loggingSkip, otel, loggingLast>>
    /\ UNCHANGED notLoggingVars

\* `return await call_next(request)` of a skipped path ends.
logging_skip_return ==
    /\ \E r \in RequestIds, o \in HandlerOutcomes :
          /\ lreqs[r].pc = "skipped"
          /\ lreqs' = [lreqs EXCEPT ![r] = IdleLogRequest]
          /\ loggingLast' = [path |-> lreqs[r].path, skipped |-> TRUE, outcome |-> o,
                             exc |-> o.exc, returned |-> o.status, headers |-> {},
                             request_id |-> 0, written |-> <<>>]
    /\ UNCHANGED <<loggingArg, loggingSkip, otel, nRequests>>
    /\ UNCHANGED notLoggingVars

\* Mutant: the test for a client error comes first.
LogLevel_ClientErrorFirst(status) ==
    IF status >= 400 THEN "warning"
    ELSE IF status >= 500 THEN "error"
    ELSE "info"

\* The method of the logger chosen for a response.
LogLevel(status) ==
    IF status >= 500 THEN "error"
    ELSE IF status >= 400 THEN "warning"
    ELSE "info"

\* The identifiers of a request: the request ID of _get_trace_context, and
\* the trace and span ID of the current span.
RequestId(n) == [kind |-> "request_id", id |-> n]
TraceId == [kind |-> "trace_id", id |-> 0]
SpanId == [kind |-> "span_id", id |-> 0]

\* _add_trace_headers(response): the headers it sets.
TraceHeaders(span) ==
    IF otel /\ span
    THEN {[name |-> "X-Trace-ID", value |-> TraceId],
          [name |-> "X-Span-ID", value |-> SpanId]}
    ELSE {}

\* The try statement of dispatch from the end of call_next on: what it
\* writes to the log, the headers it adds, what it raises.
LoggingFinish(req, o) ==
    IF o.kind = "response"
    THEN [written |-> <<[level |-> LogLevel(o.status), msg |-> "Request processed",
                         request_id |-> req.request_id]>>,
          headers |-> TraceHeaders(req.span), exc |-> None, returned |-> o.status]
    ELSE IF o.exc = OtherError
    THEN [written |-> <<[level |-> "error", msg |-> "Request failed",
                         request_id |-> req.request_id]>>,
          headers |-> {}, exc |-> o.exc, returned |-> 0]
    ELSE [written |-> <<>>, headers |-> {}, exc |-> o.exc, returned |-> 0]

\* call_next ends for a request that is logged.
logging_handler_return ==
    /\ \E r \in RequestIds, o \in HandlerOutcomes :
          /\ lreqs[r].pc = "handler"
          /\ LET f == LoggingFinish(lreqs[r], o)
             IN  loggingLast' = [path |-> lreqs[r].path, skipped |-> FALSE,
                                 outcome |-> o, exc |-> f.exc, returned |-> f.returned,
                                 headers |-> f.headers,
                                 request_id |-> lreqs[r].request_id,
                                 written |-> f.written]
          /\ lreqs' = [lreqs EXCEPT ![r] = IdleLogRequest]
    /\ UNCHANGED <<loggingArg, loggingSkip, otel, nRequests>>
    /\ UNCHANGED notLoggingVars

InitLogging ==
    /\ InitOpenManager
    /\ InitUrlVars
    /\ InitTableVars
    /\ InitLoggerVars
    /\ InitCacheVars
    /\ InitMetricsVars
    /\ InitHandlerVars
    /\ nRequests = 0
    /\ \E arg \in SkipArgs : LoggingInit(arg)
    /\ otel \in BOOLEAN
    /\ lreqs = [r \in RequestIds |-> IdleLogRequest]
    /\ loggingLast = NoLoggingCall

NextLogging ==
    \/ logging_dispatch
    \/ logging_skip_return
    \/ logging_handler_return

SpecLogging == InitLogging /\ [][NextLogging]_vars

----------------------------------------------------------------------------
\* The handlers create_exception_handler returns.

\* The message and name of the exceptions handled; UserApiError() has the
\* message "service is unavailable" and the name "UserApi".
ExcMessages ==
    {"", "service is unavailable", "No user with this id", "Token has expired"}
ExcNames == {"", "UserApi", "Auth"}
InitialDetails == {"Entity does not exist", "Invalid token"}

\* exception_handler(_, exc): the dictionary after the call, and the response.
ExceptionHandler(d, message, name) ==
    LET d1 == IF message # "" THEN [d EXCEPT !.message = message] ELSE d
        d2 == IF name # "" THEN [d1 EXCEPT !.name = name] ELSE d1
    IN  [detail |-> d2, status_code |-> hStatus, content |-> d2.message]

exception_handler ==
    /\ \E message \in ExcMessages, name \in ExcNames :
          LET h == ExceptionHandler(detail, message, name)
          IN  /\ detail' = h.detail
              /\ handlerLast' = [message |-> message, name |-> name,
                                 status_code |-> h.status_code, content |-> h.content]
    /\ UNCHANGED <<hStatus, hInitial>>
    /\ UNCHANGED <<managerVars, urlVars, tableVars, loggerVars, cacheVars>>
    /\ UNCHANGED <<metricsVars, nRequests, loggingVars>>

InitHandler ==
    /\ InitOpenManager
    /\ InitUrlVars
    /\ InitTableVars
    /\ InitLoggerVars
    /\ InitCacheVars
    /\ InitMetricsVars
    /\ InitLoggingVars
    /\ nRequests = 0
    /\ \E status_code \in {401, 404}, initial_detail \in InitialDetails :
          HandlerInit(status_code, initial_detail)

NextHandler == exception_handler

SpecHandler == InitHandler /\ [][NextHandler]_vars

----------------------------------------------------------------------------
\* Reading the record of the last call.

\* The event e occurs in ev.
Has(ev, e) == \E i \in DOMAIN ev : ev[i] = e

\* Every event (k1, n1) of ev comes before every event (k2, n2) of ev.
Precedes(ev, k1, n1, k2, n2) ==
    \A i, j \in DOMAIN ev :
        (ev[i][1] = k1 /\ ev[i][2] = n1 /\ ev[j][1] = k2 /\ ev[j][2] = n2) => i < j

\* __init__ got an engine from create_engine and a factory from sessionmaker.
BuiltWithBothHandles == built.engine # None /\ built.sessionmaker # None

EngineNotInitialized == ServiceError("Engine is not initialized", None)
SessionmakerNotInitialized == ServiceError("Sessionmaker is not initialized", None)
ConnectionFailed == ServiceError("Database connection failed", "block")
SessionFailed == ServiceError("Database session failed", "block")
CloseFailed == ServiceError("Failed to close database engine", "dispose")

----------------------------------------------------------------------------
\* C1: Closed is terminal, for both managers.  Once a close that found a
\* non-null engine has finished (returning or raising), engine and
\* _sessionmaker are None in every later state; every connect called after it
\* raises ServiceError('Engine is not initialized') and every session called
\* after it raises ServiceError('Sessionmaker is not initialized').
C1_ClosedIsTerminal ==
    closed =>
        /\ engine = None
        /\ sessionmaker = None
        /\ (last.afterClose /\ last.op = "connect") => last.exc = EngineNotInitialized
        /\ (last.afterClose /\ last.op = "session") =>
               last.exc = SessionmakerNotInitialized

\* A session called on the async manager after a close, a connect and whatever
\* else came before it.
C1_Witness ==
    /\ BuiltWithBothHandles
    /\ closed
    /\ variant = "async"
    /\ last.afterClose
    /\ last.op = "session"
    /\ nCalls >= 3

\* C2 as stated: any exception raised by the caller's block inside a connect
\* scope triggers exactly one rollback call on the connection, before
\* ServiceError('Database connection failed') propagates.  (Stated for a
\* manager built with both handles and the scopes whose transaction scope
\* exits without an error of its own.)
C2_AnyExceptionRollsBack ==
    (last.op = "connect_exit" /\ last.blk # "ok" /\ BuiltWithBothHandles /\
     Has(last.ev, Call("__exit__", "ok"))) =>
        /\ Count(last.ev, "call", "rollback") = 1
        /\ Precedes(last.ev, "call", "rollback", "raise", "Database connection failed")

\* C2 amended: a SQLAlchemyError raised by the caller's block inside a connect
\* scope triggers exactly one rollback call on the connection, before the
\* ServiceError('Database connection failed') is raised, and that ServiceError
\* is what the caller gets when the rollback and the exit of the transaction
\* scope succeed.  Any other exception of the block triggers no rollback call
\* of the manager and no ServiceError.
C2_DbErrorRollsBackOnce ==
    last.op = "connect_exit" =>
        /\ last.blk = DbError =>
              /\ Count(last.ev, "call", "rollback") = 1
              /\ Precedes(last.ev, "call", "rollback",
                          "raise", "Database connection failed")
              /\ (Has(last.ev, Call("rollback", "ok")) /\
                  Has(last.ev, Call("__exit__", "ok"))) =>
                     /\ last.exc = ConnectionFailed
                     /\ Count(last.ev, "raise", "Database connection failed") = 1
        /\ last.blk # DbError =>
              /\ Count(last.ev, "call", "rollback") = 0
              /\ last.exc.type # "ServiceError"

\* A connect scope left by a SQLAlchemyError of the block, translated.
C2_Witness ==
    /\ BuiltWithBothHandles
    /\ last.op = "connect_exit"
    /\ last.blk = DbError
    /\ last.exc = ConnectionFailed

\* C3 as stated: any exception raised by the caller's block inside a session
\* scope triggers exactly one rollback call and exactly one close call on the
\* session, rollback first.  (Stated for a manager built with both handles
\* and the scopes whose close returns.)
C3_AnyExceptionRollsBackAndCloses ==
    (last.op = "session_exit" /\ last.blk # "ok" /\ BuiltWithBothHandles /\
     Has(last.ev, Call("close", "ok"))) =>
        /\ Count(last.ev, "call", "rollback") = 1
        /\ Count(last.ev, "call", "close") = 1
        /\ Precedes(last.ev, "call", "rollback", "call", "close")

\* C3 amended: a SQLAlchemyError raised by the caller's block inside a session
\* scope triggers exactly one rollback call and exactly one close call on that
\* session, rollback first and close second, both before the caller gets
\* ServiceError('Database session failed') (which it gets when rollback and
\* close succeed).  Any other exception of the block triggers the close call
\* only: no rollback and no ServiceError.
C3_DbErrorRollsBackThenCloses ==
    last.op = "session_exit" =>
        /\ last.blk = DbError =>
              /\ Count(last.ev, "call", "rollback") = 1
              /\ Count(last.ev, "call", "close") = 1
              /\ Precedes(last.ev, "call", "rollback", "call", "close")
              /\ (Has(last.ev, Call("rollback", "ok")) /\
                  Has(last.ev, Call("close", "ok"))) => last.exc = SessionFailed
        /\ last.blk = OtherError =>
              /\ Count(last.ev, "call", "rollback") = 0
              /\ Count(last.ev, "call", "close") = 1
              /\ last.exc.type # "ServiceError"

\* A session scope left by a SQLAlchemyError of the block, translated.
C3_Witness ==
    /\ BuiltWithBothHandles
    /\ last.op = "session_exit"
    /\ last.blk = DbError
    /\ last.exc = SessionFailed

\* C4: guaranteed release.  Every session scope that got a session from the
\* factory calls session.close exactly once before control returns to the
\* caller, however the scope is left; nothing is closed while the block runs
\* or when the factory gave no session.
C4_SessionClosedExactlyOnce ==
    /\ last.op = "session_exit" => Count(last.ev, "call", "close") = 1
    /\ last.op = "session" => Count(last.ev, "call", "close") = 0
    /\ \A s \in ScopeIds :
          scopes[s].kind = "session" => Count(scopes[s].ev, "call", "close") = 0

\* A session scope left through a rollback that itself failed.
C4_Witness ==
    /\ BuiltWithBothHandles
    /\ last.op = "session_exit"
    /\ last.blk = DbError
    /\ Has(last.ev, Call("rollback", DbError))
    /\ last.exc = Escapes(DbError, "rollback")

\* C5: no database-layer exception leaves a scoped acquisition in its original
\* form: a SQLAlchemyError raised while connect is entering engine.begin()
\* reaches the caller as a ServiceError.  (The claim says the same of the
\* session factory, of rollback and of release; this is its first case, on a
\* manager built with both handles.)
C5_NoDbErrorEscapes ==
    (last.op = "connect" /\ BuiltWithBothHandles) => last.exc.type # DbError

\* C6 as stated: in every reachable state, after failing calls too, the
\* session-factory handle is non-null iff the engine handle is non-null.
\* (Stated for the states a close call leaves; the claim's other half, the
\* engine being non-null exactly when the manager is Open, is in the amended
\* formula.)
C6_HandlesAlwaysPaired ==
    last.op = "close" => ((sessionmaker # None) <=> (engine # None))

\* C6 amended: until a close finds an engine, each handle has the value
\* __init__ gave it; after such a close both are None.  So for a manager whose
\* construction obtained both handles the engine is non-null exactly while
\* the manager is Open, and the two handles are both null or both non-null.
C6_HandlesFollowLifecycle ==
    /\ closed => (engine = None /\ sessionmaker = None)
    /\ ~closed => (engine = built.engine /\ sessionmaker = built.sessionmaker)
    /\ BuiltWithBothHandles =>
          /\ (engine # None) <=> ~closed
          /\ (sessionmaker # None) <=> (engine # None)

\* A manager built with both handles, after a close that raised.
C6_Witness ==
    /\ BuiltWithBothHandles
    /\ last.op = "close"
    /\ last.exc = CloseFailed

\* C7: close on a manager whose engine handle is None raises
\* ServiceError('Engine is not initialized'), never calls dispose, and leaves
\* engine and _sessionmaker as they were.
C7_CloseWithoutEngine ==
    (last.op = "close" /\ last.pre.engine = None) =>
        /\ last.exc = EngineNotInitialized
        /\ Count(last.ev, "call", "dispose") = 0
        /\ nDispose = last.pre.nDispose
        /\ engine = last.pre.engine
        /\ sessionmaker = last.pre.sessionmaker

\* close on a manager that has no engine and has a session factory.
C7_Witness ==
    /\ last.op = "close"
    /\ last.pre.engine = None
    /\ last.pre.sessionmaker # None

\* C8: when engine.dispose raises a SQLAlchemyError during close, the manager
\* logs the error, still sets engine and _sessionmaker to None, and raises
\* ServiceError('Failed to close database engine').
C8_DisposeFailure ==
    (last.op = "close" /\ Has(last.ev, Call("dispose", DbError))) =>
        /\ Count(last.ev, "error", "Error while disposing database engine") = 1
        /\ engine = None
        /\ sessionmaker = None
        /\ closed
        /\ last.exc = CloseFailed

\* A close whose dispose raised a SQLAlchemyError, on the sync manager.
C8_Witness ==
    /\ BuiltWithBothHandles
    /\ variant = "sync"
    /\ last.op = "close"
    /\ Has(last.ev, Call("dispose", DbError))

\* C9: in a sequential run, close on an Open manager makes the transition to
\* Closed once and calls engine.dispose once; a close after it raises
\* ServiceError('Engine is not initialized') and does not call dispose.
C9_DisposeOnce ==
    /\ nDispose <= 1
    /\ closed <=> (nDispose = 1)
    /\ (last.op = "close" /\ last.afterClose) =>
          /\ last.exc = EngineNotInitialized
          /\ Count(last.ev, "call", "dispose") = 0
          /\ nDispose = last.pre.nDispose

\* A second close.
C9_Witness ==
    /\ BuiltWithBothHandles
    /\ last.op = "close"
    /\ last.afterClose
    /\ nDispose = 1

\* C10: when the engine handle is None, connect raises
\* ServiceError('Engine is not initialized') at once: engine.begin is not
\* called, no transaction scope is entered and no block runs.
C10_ConnectWithoutEngine ==
    (last.op = "connect" /\ last.pre.engine = None) =>
        /\ last.exc = EngineNotInitialized
        /\ Count(last.ev, "call", "begin") = 0
        /\ Count(last.ev, "call", "__enter__") = 0
        /\ nBegin = last.pre.nBegin
        /\ last.scope = 0
        /\ Cardinality(OpenScopes) = last.pre.nOpen

\* connect on a manager built with a None engine, never closed.
C10_Witness ==
    /\ last.op = "connect"
    /\ last.pre.engine = None
    /\ ~closed

----------------------------------------------------------------------------
\* C11: when the session-factory handle is None, session / async_session
\* raises ServiceError('Sessionmaker is not initialized') without calling the
\* factory: no session object is made, no scope is opened, and the call makes
\* no rollback and no close.
C11_SessionWithoutFactory ==
    (last.op = "session" /\ last.pre.sessionmaker = None) =>
        /\ last.exc = SessionmakerNotInitialized
        /\ Count(last.ev, "call", "sessionmaker") = 0
        /\ nFactory = last.pre.nFactory
        /\ Count(last.ev, "call", "rollback") = 0
        /\ Count(last.ev, "call", "close") = 0
        /\ last.scope = 0
        /\ Cardinality(OpenScopes) = last.pre.nOpen

\* A session call on a manager whose sessionmaker returned None while its
\* engine is there has raised.
C11_Witness ==
    /\ last.op = "session"
    /\ last.pre.sessionmaker = None
    /\ last.pre.engine # None
    /\ last.exc = SessionmakerNotInitialized

----------------------------------------------------------------------------
\* C12 as stated: the first call made on a newly constructed manager, a connect
\* or a session, passes its initialization check.
C12_ConstructedIsOpen ==
    (nCalls = 1 /\ last.op \in {"connect", "session"}) =>
        last.exc \notin {EngineNotInitialized, SessionmakerNotInitialized}

\* C12: a manager whose constructor got an engine and a session factory is
\* Open until close is called: every connect and session call made before the
\* first close passes its check, calls engine.begin or the factory, and does
\* not raise the 'not initialized' ServiceError, however many calls came before.
C12_BuiltIsOpenUntilClose ==
    (/\ BuiltWithBothHandles
     /\ last.pre.nDispose = 0
     /\ last.op \in {"connect", "session"}) =>
        /\ last.exc \notin {EngineNotInitialized, SessionmakerNotInitialized}
        /\ last.op = "connect" => Count(last.ev, "call", "begin") = 1
        /\ last.op = "session" => Count(last.ev, "call", "sessionmaker") = 1

\* The last of MaxCalls calls, none of them a close, is a session call made
\* after earlier sessions and has opened its scope.
C12_Witness ==
    /\ BuiltWithBothHandles
    /\ nDispose = 0
    /\ nCalls = MaxCalls
    /\ last.op = "session"
    /\ last.pre.nFactory > 0
    /\ last.exc = NoExc

----------------------------------------------------------------------------
\* C13: one new session per scope.  Every session / async_session call on a
\* manager that has its factory calls the factory exactly once, and the session
\* of the scope it opens is the one that call returned, different from the
\* session of every earlier scope; no other step of the manager (a scope
\* exit, a connect, a close) calls the factory.  So N scopes run one after
\* another and a close make N factory calls.
C13_OneFactoryCallPerScope ==
    [][IF last'.op = "session" /\ nCalls' = nCalls + 1 /\ sessionmaker # None
       THEN /\ nFactory' = nFactory + 1
            /\ last'.scope # 0 =>
                  /\ scopes'[last'.scope].obj = nFactory'
                  /\ \A t \in OpenScopes :
                        scopes[t].kind = "session" => scopes[t].obj < nFactory'
       ELSE nFactory' = nFactory]_vars

\* Three session scopes have run and ended, and the manager has been closed.
C13_Witness ==
    /\ BuiltWithBothHandles
    /\ nFactory = 3
    /\ OpenScopes = {}
    /\ last.op = "close"
    /\ nDispose = 1

----------------------------------------------------------------------------
\* C14: cancellation keeps finally-semantics in the async manager.  When the
\* task running the block of an async_session scope is cancelled, the
\* CancelledError passes the `except SQLAlchemyError` clause (no rollback, no
\* log, no ServiceError), session.close() is awaited exactly once as the last
\* thing the scope does, and the CancelledError then leaves the scope (unless
\* close itself raised).
C14_CancelledSessionIsClosed ==
    (variant = "async" /\ last.op = "session_exit" /\ last.blk = Cancelled) =>
        /\ Count(last.ev, "call", "close") = 1
        /\ last.ev[Len(last.ev)][1] = "call"
        /\ last.ev[Len(last.ev)][2] = "close"
        /\ Count(last.ev, "call", "rollback") = 0
        /\ Count(last.ev, "raise", "Database session failed") = 0
        /\ Has(last.ev, Call("close", "ok")) => last.exc = Escapes(Cancelled, "block")

\* An async_session scope whose task was cancelled has ended: its session was
\* closed and the cancellation reached the caller.
C14_Witness ==
    /\ variant = "async"
    /\ BuiltWithBothHandles
    /\ last.op = "session_exit"
    /\ last.blk = Cancelled
    /\ Has(last.ev, Call("close", "ok"))
    /\ last.exc = Escapes(Cancelled, "block")

----------------------------------------------------------------------------
\* C17: a ServiceError that translates a failure ('Database connection
\* failed', 'Database session failed', 'Failed to close database engine')
\* carries as its cause the database-layer exception that was caught: the
\* SQLAlchemyError of the caller's block for the two scopes, the
\* SQLAlchemyError of engine.dispose() for close.
C17_TranslatedErrorKeepsCause ==
    (/\ last.exc.type = "ServiceError"
     /\ last.exc.msg \in {"Database connection failed", "Database session failed",
                          "Failed to close database engine"}) =>
        /\ last.exc.cause # None
        /\ last.op \in {"connect_exit", "session_exit"} =>
              last.exc.cause = "block" /\ last.blk = DbError
        /\ last.op = "close" =>
              last.exc.cause = "dispose" /\ Has(last.ev, Call("dispose", DbError))

\* A connect scope whose block raised a SQLAlchemyError has ended with the
\* translated error, the block's exception as its cause.
C17_Witness ==
    /\ BuiltWithBothHandles
    /\ last.op = "connect_exit"
    /\ last.blk = DbError
    /\ last.exc = ConnectionFailed

----------------------------------------------------------------------------
\* C18: no ServiceError is raised silently.  In every call of close, connect
\* or session that raises a ServiceError, for a missing handle or for a
\* translated database failure, the manager wrote exactly one error-level
\* log record, and wrote it before the raise; a call writes no error record
\* without raising.
C18_ErrorLoggedBeforeRaise ==
    LET errs == {i \in DOMAIN last.ev : last.ev[i][1] = "error"}
        raises == {i \in DOMAIN last.ev : last.ev[i][1] = "raise"}
    IN  /\ Cardinality(errs) = Cardinality(raises)
        /\ Cardinality(raises) <= 1
        /\ \A i \in errs, j \in raises : i < j
        /\ last.exc.type = "ServiceError" =>
              /\ Cardinality(raises) = 1
              /\ \A j \in raises : last.ev[j][2] = last.exc.msg

\* A close on a manager without engine has logged and raised.
C18_Witness ==
    /\ last.op = "close"
    /\ last.pre.engine = None
    /\ last.exc = EngineNotInitialized
    /\ last.ev = <<Log("error", "Attempted to close a non-existing engine"),
                   RaiseEv("Engine is not initialized")>>

----------------------------------------------------------------------------
\* C19 as stated: when the block of a SyncDatabaseManager scope raises a
\* database-layer error, the error log record names the sync variant:
\* 'Database error while using sync connection' for connect, 'Database error
\* while using sync session' for session.
C19_SyncLogNamesSync ==
    (/\ variant = "sync"
     /\ BuiltWithBothHandles
     /\ last.blk = DbError
     /\ last.exc.type = "ServiceError") =>
        /\ last.op = "connect_exit" =>
              Has(last.ev, Log("error", "Database error while using sync connection"))
        /\ last.op = "session_exit" =>
              Has(last.ev, Log("error", "Database error while using sync session"))

----------------------------------------------------------------------------
\* C16: session instances are never shared between concurrent scopes.  Under
\* every interleaving of the entries and exits of session / async_session
\* scopes on one manager, the open scopes hold pairwise different sessions, each
\* returned by a factory call of its own, and the rollback and the close made
\* when a scope exits or fails are made on that scope's session: no session
\* ever gets a rollback or a close from the exit of another scope.
C16_SessionsNotShared ==
    /\ \A s, t \in OpenScopes :
          (s # t /\ scopes[s].kind = "session" /\ scopes[t].kind = "session") =>
              scopes[s].obj # scopes[t].obj
    /\ \A s \in OpenScopes :
          scopes[s].kind = "session" => scopes[s].obj \in 1..nFactory
    /\ \A i \in SessionIds : sessions[i] = 0

\* Two session scopes were open together; the first one failed with a database
\* error and was rolled back and closed, and the second one is still open,
\* its session untouched.
C16_Witness ==
    /\ BuiltWithBothHandles
    /\ last.op = "session_exit"
    /\ last.blk = DbError
    /\ last.pre.nOpen = 2
    /\ Count(last.ev, "call", "rollback") = 1
    /\ Count(last.ev, "call", "close") = 1
    /\ \E t \in OpenScopes :
          /\ scopes[t].kind = "session"
          /\ scopes[t].obj = 2
          /\ sessions[scopes[t].obj] = 0

----------------------------------------------------------------------------
\* C15: the sync manager has no lock, so close races with connect.  With one
\* thread in close and another in connect, connect can pass its 'engine is
\* None' check and then find the handle set to None by close.  Whenever that
\* happened (the check read an engine, the use read None), a close of another
\* thread that had found the engine has run its `self.engine = None` in
\* between, and connect ended with the AttributeError of None.begin: begin
\* was not called, nothing was logged, and no ServiceError was raised.
C15_CheckThenUseRace ==
    \A t \in ThreadIds :
        (/\ ThreadAt(t, "connect", "done")
         /\ threads[t].checked # None
         /\ threads[t].used = None) =>
            /\ threads[t].exc = Escapes(AttributeError, "begin")
            /\ threads[t].ev = <<>>
            /\ engine = None
            /\ \E u \in ThreadIds \ {t} :
                  /\ threads[u].op = "close"
                  /\ threads[u].pc \in {"finally2", "done"}
                  /\ threads[u].checked # None

\* The race has happened on a manager built with both handles: connect passed
\* its check, close disposed the engine and reset the handle, and connect then
\* read None.
C15_Witness ==
    /\ BuiltWithBothHandles
    /\ \E t \in ThreadIds, u \in ThreadIds :
          /\ ThreadAt(t, "connect", "done")
          /\ threads[t].checked = "Engine"
          /\ threads[t].used = None
          /\ threads[t].exc.type = AttributeError
          /\ threads[u].op = "close"
          /\ Has(threads[u].ev, Call("dispose", "ok"))

----------------------------------------------------------------------------
\* C20: ServiceError carries an optional message.  ServiceError(m) has m as
\* its msg attribute and str(error) is m; ServiceError() and ServiceError(None)
\* have msg None, there being no default message text, and str(error) is the
\* string 'None'.
C20_ServiceErrorMessage ==
    \A i \in DOMAIN errors :
        LET e == errors[i]
        IN  /\ e.args \in {<<>>, <<PyNone>>} =>
                  /\ e.msg = PyNone
                  /\ e.str = PyStr("None")
            /\ (e.args # <<>> /\ e.args # <<PyNone>>) =>
                  /\ e.msg = e.args[1]
                  /\ e.str = e.args[1]
                  /\ e.msg.type = "str"

\* ServiceError('Database connection failed'), ServiceError() and
\* ServiceError(None) have been constructed, in this order.
C20_Witness ==
    /\ Len(errors) = 3
    /\ errors[1].args = <<PyStr("Database connection failed")>>
    /\ errors[1].str = PyStr("Database connection failed")
    /\ errors[2].args = <<>>
    /\ errors[2].msg = PyNone
    /\ errors[3].args = <<PyNone>>
    /\ errors[3].str = PyStr("None")

----------------------------------------------------------------------------
\* C28: an exception of the caller's block that is not a SQLAlchemyError,
\* raised inside session / async_session, is not handled by the manager: no
\* rollback, no error log record, no ServiceError; the session is closed
\* exactly once, and the block's exception reaches the caller unchanged
\* (when close itself raises, it is the exception of close that does).
C28_OtherExceptionPassesThrough ==
    (last.op = "session_exit" /\ last.blk \notin {"ok", DbError}) =>
        /\ Count(last.ev, "call", "rollback") = 0
        /\ \A i \in DOMAIN last.ev : last.ev[i][1] \notin {"error", "raise"}
        /\ last.exc.type # "ServiceError"
        /\ Count(last.ev, "call", "close") = 1
        /\ Has(last.ev, Call("close", "ok")) => last.exc = Escapes(last.blk, "block")
        /\ ~Has(last.ev, Call("close", "ok")) => last.exc.msg = "close"

\* The block of a sync session scope raised an exception that is not a
\* SQLAlchemyError; the session was closed and the exception reached the caller.
C28_Witness ==
    /\ variant = "sync"
    /\ BuiltWithBothHandles
    /\ last.op = "session_exit"
    /\ last.blk = OtherError
    /\ last.ev = <<Call("sessionmaker", "ok"), Call("close", "ok")>>
    /\ last.exc = Escapes(OtherError, "block")

----------------------------------------------------------------------------
\* C29: no retry.  A connect / async_connect call on a manager that has its
\* engine calls engine.begin once and enters the transaction scope once,
\* also when entering fails; the end of the scope exits the transaction scope
\* once, rolls back at most once, calls begin no more and ends the scope, on
\* normal exit and on error exit alike.
C29_NoRetry ==
    /\ (last.op = "connect" /\ last.pre.engine # None) =>
          /\ Count(last.ev, "call", "begin") = 1
          /\ Count(last.ev, "call", "__enter__") = 1
          /\ nBegin = last.pre.nBegin + 1
    /\ last.op = "connect_exit" =>
          /\ Count(last.ev, "call", "begin") = 1
          /\ Count(last.ev, "call", "__enter__") = 1
          /\ Count(last.ev, "call", "__exit__") = 1
          /\ Count(last.ev, "call", "rollback") <= 1
          /\ Count(last.ev, "call", "rollback") = 1 <=> last.blk = DbError
          /\ nBegin = last.pre.nBegin
          /\ scopes[last.scope] = FreeScope
          /\ Cardinality(OpenScopes) = last.pre.nOpen - 1

\* A connect scope has ended on a database error of its block: one begin, one
\* rollback, one exit of the transaction scope.
C29_Witness ==
    /\ BuiltWithBothHandles
    /\ last.op = "connect_exit"
    /\ last.blk = DbError
    /\ last.exc = ConnectionFailed
    /\ nBegin = 1
    /\ last.ev = <<Call("begin", "ok"), Call("__enter__", "ok"),
                   Call("rollback", "ok"),
                   Log("error", "Database error while using async connection"),
                   RaiseEv("Database connection failed"), Call("__exit__", "ok")>>

----------------------------------------------------------------------------
\* C30: on normal exit the manager issues neither commit nor rollback.  When
\* the block of a connect scope ends normally, the manager only exits the
\* engine.begin() scope; when the block of a session scope ends normally, the
\* manager only calls session.close.
C30_NormalExitOnlyReleases ==
    /\ (last.op = "connect_exit" /\ last.blk = "ok") =>
          \E ex \in Outcomes :
              last.ev = BeginEvents("ok") \o <<Call("__exit__", ex)>>
    /\ (last.op = "session_exit" /\ last.blk = "ok") =>
          \E cl \in Outcomes :
              last.ev = <<Call("sessionmaker", "ok"), Call("close", cl)>>
    /\ last.op \in {"connect_exit", "session_exit"} =>
          Count(last.ev, "call", "commit") = 0

\* A session scope whose block ended normally has ended: close is the only
\* call the manager made on the session.
C30_Witness ==
    /\ BuiltWithBothHandles
    /\ last.op = "session_exit"
    /\ last.blk = "ok"
    /\ last.exc = NoExc
    /\ last.ev = <<Call("sessionmaker", "ok"), Call("close", "ok")>>

----------------------------------------------------------------------------
\* C26 as stated: engine.dispose is invoked at most once per manager under any
\* interleaving of async_close calls, and of two overlapping async_close calls
\* on an Open manager one disposes the engine and the other raises
\* ServiceError('Engine is not initialized').
C26_DisposeAtMostOnce ==
    BuiltWithBothHandles =>
        /\ nDispose <= 1
        /\ \A t, u \in ThreadIds :
              (/\ t # u
               /\ ThreadAt(t, "close", "done")
               /\ ThreadAt(u, "close", "done")
               /\ threads[t].exc = NoExc) => threads[u].exc = EngineNotInitialized

----------------------------------------------------------------------------
\* C27 as stated: no acquisition after close has begun.  An async_connect or
\* async_session call that a task begins while an async_close of another task
\* is suspended in dispose (it has passed its engine check and called
\* dispose) fails with the not-initialized ServiceError and is handed no
\* connection and no session.
C27_NoAcquisitionWhileClosing ==
    BuiltWithBothHandles =>
        \A t \in ThreadIds :
            (/\ threads[t].op \in {"connect", "session"}
             /\ threads[t].closing
             /\ threads[t].pc \in {"block", "done"}) =>
                /\ threads[t].pc = "done"
                /\ threads[t].exc \in {EngineNotInitialized, SessionmakerNotInitialized}

----------------------------------------------------------------------------
\* C21: create_url is a deterministic derivation of the connection
\* parameters.  Every URL it returns has drivername, username, password, host,
\* database and port equal to the fields of db_params, and any two calls on a
\* manager, whatever connect, session and close calls lie between them, return
\* equal URLs.
C21_UrlFromParams ==
    /\ \A u \in urls :
          \A f \in {"drivername", "username", "password", "host", "database", "port"} :
              u.url[f] = db_params[f]
    /\ \A u, w \in urls : u.url = w.url

\* create_url was called on a new manager and again after the manager was
\* closed.
C21_Witness ==
    /\ \E u, w \in urls :
          /\ ~u.closed
          /\ w.closed
          /\ w.url.port = 3306
          /\ w.url.database = "shop"
          /\ w.url.password = ""
    /\ nBegin > 0
    /\ nFactory > 0

\* Two names that differ at most in the case of their letters.
SameLetters(a, b) ==
    /\ Len(a) = Len(b)
    /\ \A i \in DOMAIN a :
          \/ a[i] = b[i]
          \/ <<a[i], b[i]>> \in CasePairs
          \/ <<b[i], a[i]>> \in CasePairs

\* C25: a class that mixes in MixInNameTable and does not define its own
\* __tablename__ has as table name its class name in lower case: as long as
\* the name, every character a lower-case letter, the letter of the class name
\* at that place, with no separator.  Two such classes whose names differ only
\* in letter case have the same table name.
C25_TableNameIsLowerCaseName ==
    /\ \A c \in classes :
          c.own = NoTableName =>
              /\ Len(c.tablename) = Len(c.name)
              /\ \A i \in DOMAIN c.name :
                    /\ c.tablename[i] \in LowerChars
                    /\ SameLetters(<<c.tablename[i]>>, <<c.name[i]>>)
    /\ \A c, d \in classes :
          c.own = NoTableName /\ d.own = NoTableName /\ SameLetters(c.name, d.name)
              => c.tablename = d.tablename

\* The classes UP and up are declared, neither with a table name of its own;
\* both are mapped to the table up.
C25_Witness ==
    /\ [name |-> <<"U", "P">>, own |-> NoTableName, tablename |-> <<"u", "p">>] \in classes
    /\ [name |-> <<"u", "p">>, own |-> NoTableName, tablename |-> <<"u", "p">>] \in classes

\* C22: setup with default_config False and logs_sinks None, on an instance
\* that is not configured, raises ServiceError with the log_sinks text as first
\* argument, adds no sink and leaves the instance unconfigured; the setup call
\* that follows it with a list the logger accepts adds the list and configures
\* the instance.
C22_NoSinksRaisesAndKeepsUnconfigured ==
    /\ (LoguruCalls > 0 /\ ~setupLast.pre.configured /\ ~setupLast.args.default_config
            /\ setupLast.args.logs_sinks.isNone)
          => /\ setupLast.exc.type = "ServiceError"
             /\ setupLast.exc.msg = LogSinksText
             /\ setupLast.added = <<>>
             /\ ~configured
    /\ (setupLast.prevExc = "ServiceError" /\ ~setupLast.args.default_config
            /\ ~setupLast.args.logs_sinks.isNone
            /\ \A i \in DOMAIN setupLast.args.logs_sinks.items :
                  setupLast.args.logs_sinks.items[i] \in ValidSinks)
          => /\ setupLast.exc = NoSetupExc
             /\ setupLast.added = setupLast.args.logs_sinks.items
             /\ configured

\* setup(None) has raised ServiceError, and the next call, with two sinks, has
\* registered them: they are the only sinks of the logger.
C22_Witness ==
    /\ LoguruCalls = 2
    /\ setupLast.prevExc = "ServiceError"
    /\ setupLast.args.logs_sinks.items = <<"stderr", "file">>
    /\ sinks = <<"stderr", "file">>
    /\ configured

\* C23: when entry number i of logs_sinks, counted from 1, is the first one
\* the logger rejects, setup raises RuntimeError with the message
\* 'Invalid log sink configuration at index i: <entry>' and the rejecting
\* exception as cause; the call has added the entries before position i and
\* none from position i on.
C23_RejectedSinkIsReported ==
    setupLast.rejected > 0
        => /\ setupLast.exc.type = "RuntimeError"
           /\ setupLast.exc.msg = InvalidSinkText
           /\ setupLast.exc.index = setupLast.rejected
           /\ setupLast.exc.entry = setupLast.args.logs_sinks.items[setupLast.rejected]
           /\ setupLast.exc.cause = AddError(setupLast.exc.entry)
           /\ setupLast.added =
                 SubSeq(setupLast.args.logs_sinks.items, 1, setupLast.rejected - 1)
           /\ ~configured

\* The second entry of a list is rejected: the error names index 2, and only
\* the first entry is registered.
C23_Witness ==
    /\ setupLast.args.logs_sinks.items = <<"file", "{}">>
    /\ setupLast.rejected = 2
    /\ setupLast.exc.index = 2
    /\ sinks = <<"file">>

\* C24: the cache decorator answers from the cache or delegates.  The wrapped
\* function is called iff no phrase of the question is in the hash of the
\* user at the time of the call; when at least one phrase is, the wrapper
\* returns a response with status 200 whose content holds the cached phrases,
\* each with its answer, and no other phrase.
C24_AnswersFromCacheOrDelegates ==
    cacheLast.user \in UserIds =>
        LET h == cacheLast.hash
            q == cacheLast.question
            cached == {i \in DOMAIN q : strip(q[i]) \in h}
        IN  /\ cacheLast.called <=> cached = {}
            /\ cached # {} =>
                  /\ cacheLast.exc = None
                  /\ cacheLast.response.status_code = 200
                  /\ Len(cacheLast.response.content) = Cardinality(cached)
                  /\ \A k \in DOMAIN cacheLast.response.content :
                        \E i \in cached :
                           cacheLast.response.content[k] =
                              <<strip(q[i]), <<"answer", strip(q[i])>>>>

\* The last n sinks registered on the logger.
LastSinks(n) == SubSeq(sinks, Len(sinks) - n + 1, Len(sinks))

\* C33: setup does not undo partial work.  When it fails on entry i of
\* logs_sinks, the entries 1..i-1 it added are registered on the logger, as
\* its last sinks, and the instance is unconfigured; when the call before it
\* was given the same list, the entries 1..i-1 are registered twice, one run
\* after the other.
C33_PartialSetupIsKept ==
    setupLast.rejected > 0 =>
        LET before == SubSeq(setupLast.args.logs_sinks.items, 1,
                             setupLast.rejected - 1)
        IN  /\ ~configured
            /\ Len(sinks) >= Len(before)
            /\ LastSinks(Len(before)) = before
            /\ setupLast.sameArgs
                  => /\ Len(sinks) >= 2 * Len(before)
                     /\ LastSinks(2 * Len(before)) = before \o before

\* setup was called twice with the list [file, {}]: both calls failed on
\* entry 2, and the sink file is registered twice.
C33_Witness ==
    /\ setupLast.args.logs_sinks.items = <<"file", "{}">>
    /\ setupLast.sameArgs
    /\ setupLast.rejected = 2
    /\ LoguruCalls = 2
    /\ sinks = <<"file", "file">>
    /\ ~configured

\* C34: setup is at-most-once per instance.  A setup call on a LoguruLogging
\* or BuiltinLogging instance that comes after a call that ended without an
\* exception finds the instance configured; a call that finds the instance
\* configured adds no sink, reads no configuration file, raises nothing and
\* leaves the instance configured, whatever its arguments.
C34_SetupAtMostOnce ==
    /\ (LoguruCalls >= 2 /\ setupLast.prevExc = None)
          => setupLast.pre.configured
    /\ setupLast.pre.configured
          => /\ setupLast.exc = NoSetupExc
             /\ setupLast.added = <<>>
             /\ configured
    /\ (builtinLast.calls >= 2 /\ builtinLast.prevExc = None)
          => builtinLast.pre.configured
    /\ builtinLast.pre.configured
          => /\ builtinLast.exc = None
             /\ builtinLast.opened = ""
             /\ ~builtinLast.dictConfig
             /\ builtinConfigured

\* A configured LoguruLogging instance was given logs_sinks None, and a
\* configured BuiltinLogging instance the path of a file that does not exist.
C34_Witness ==
    /\ setupLast.pre.configured
    /\ setupLast.args.logs_sinks.isNone
    /\ ~setupLast.args.default_config
    /\ Len(sinks) > 0
    /\ builtinLast.pre.configured
    /\ builtinLast.args = [config_path |-> "missing.json", default_config |-> FALSE]

\* C31: the in-progress gauge is balanced.  A request whose path is not
\* skipped raises the gauge once before the handler and lowers it once on
\* every way out of dispatch (a response, an exception of the handler, the
\* cancellation of the request), so with no request in flight the gauge has
\* its initial value for every endpoint.
C31_GaugeBalanced ==
    /\ (~metricsLast.skipped /\ metricsLast.path # "" /\ track)
          => metricsLast.gaugeUp = 1 /\ metricsLast.gaugeDown = 1
    /\ (\A r \in RequestIds : mreqs[r].pc = "idle")
          => \A path \in RequestPaths : gauge[path] = 0

\* C35: every request whose path is not skipped raises http_requests_total
\* once and records one duration: under the status of the response, or under
\* 500 when the handler raises, and then dispatch raises the handler's
\* exception; a request whose path is skipped changes no metric.
C35_EveryRequestCountedOnce ==
    /\ (~metricsLast.skipped /\ metricsLast.path # "")
          => /\ Len(metricsLast.counted) = 1
             /\ metricsLast.observed = 1
             /\ metricsLast.outcome.kind = "response"
                   => /\ metricsLast.counted[1] = metricsLast.outcome.status
                      /\ metricsLast.exc = None
             /\ metricsLast.outcome.kind = "raise"
                   => /\ metricsLast.counted[1] = 500
                      /\ metricsLast.exc = metricsLast.outcome.exc
    /\ metricsLast.skipped
          => metricsLast.counted = <<>> /\ metricsLast.observed = 0

\* C32: the response of a handler depends on initial_detail and on the
\* exception handled, not on the exceptions handled before: its detail is the
\* message of the exception, and initial_detail when that message is empty.
C32_DetailFromThisException ==
    handlerLast.status_code # 0 =>
        handlerLast.content =
            IF handlerLast.message # "" THEN handlerLast.message ELSE hInitial

\* A dispatch of LoggingMiddleware for a path that is not skipped has ended.
LoggedDispatchEnded == ~loggingLast.skipped /\ loggingLast.path # ""

\* C36 as stated: every request whose path is not skipped writes exactly one
\* log record.
C36_OneRecordPerRequest ==
    LoggedDispatchEnded => Len(loggingLast.written) = 1

\* C36: a request whose path is not skipped and whose handler returns a
\* response writes one log record, 'Request processed', at error level for a
\* status of 500 or more, at warning level for 400 or more, at info level
\* otherwise; when the handler raises an Exception it writes one record,
\* 'Request failed', at error level, and dispatch raises that exception.  A
\* request that ends with an exception that is not an Exception (the
\* cancellation of its task) writes no record, and neither does a request
\* whose path is skipped; both pass on what call_next returned or raised.
C36_OneRecordPerHandledRequest ==
    /\ (LoggedDispatchEnded /\ loggingLast.outcome.kind = "response")
          => /\ Len(loggingLast.written) = 1
             /\ loggingLast.written[1].msg = "Request processed"
             /\ loggingLast.outcome.status >= 500
                   => loggingLast.written[1].level = "error"
             /\ (loggingLast.outcome.status >= 400 /\ loggingLast.outcome.status < 500)
                   => loggingLast.written[1].level = "warning"
             /\ loggingLast.outcome.status < 400
                   => loggingLast.written[1].level = "info"
             /\ loggingLast.exc = None
             /\ loggingLast.returned = loggingLast.outcome.status
    /\ (LoggedDispatchEnded /\ loggingLast.outcome.exc = OtherError)
          => /\ Len(loggingLast.written) = 1
             /\ loggingLast.written[1].msg = "Request failed"
             /\ loggingLast.written[1].level = "error"
             /\ loggingLast.exc = OtherError
    /\ (LoggedDispatchEnded /\ loggingLast.outcome.exc = Cancelled)
          => /\ loggingLast.written = <<>>
             /\ loggingLast.exc = Cancelled
    /\ loggingLast.skipped
          => /\ loggingLast.written = <<>>
             /\ loggingLast.exc = loggingLast.outcome.exc
             /\ loggingLast.returned = loggingLast.outcome.status

\* A request to /api was answered with status 503 and logged at error level,
\* after an earlier request had been given to the middleware.
C36_Witness ==
    /\ LoggedDispatchEnded
    /\ loggingLast.path = "/api"
    /\ loggingLast.outcome = Returned(503)
    /\ loggingLast.written =
          <<[level |-> "error", msg |-> "Request processed",
             request_id |-> loggingLast.request_id]>>
    /\ nRequests > 1

\* C37: a response that dispatch returns for a path that is not skipped
\* carries in its headers the request ID generated for the request.
C37_ResponseCarriesRequestId ==
    (LoggedDispatchEnded /\ loggingLast.outcome.kind = "response"
        /\ loggingLast.request_id # 0)
        => \E h \in loggingLast.headers : h.value = RequestId(loggingLast.request_id)

\* C38: the default skip set of a middleware is used only when skip_paths
\* is not provided (None); a set passed explicitly is used as given, so with
\* skip_paths=set() no path is skipped.
C38_SkipPathsAsGiven ==
    /\ metricsSkip =
          IF metricsArg.isNone THEN MetricsDefaultSkip ELSE metricsArg.paths
    /\ loggingSkip =
          IF loggingArg.isNone THEN LoggingDefaultSkip ELSE loggingArg.paths
    /\ metricsArg = SkipPaths({}) => ~metricsLast.skipped
    /\ loggingArg = SkipPaths({}) => ~loggingLast.skipped

====
